---- MODULE Spec2Model ----
\* rustrecon: the scan-result cache (rusqlite_database.rs) and the caching
\* wrapper around the LLM client (rusqlite_cached_llm_client.rs).
EXTENDS FiniteSets, Integers, Sequences, TLC

\* ---------------------------------------------------------------- bounds
MaxTime == 3          \* the clock runs over 0..MaxTime ticks
TicksPerDay == 2      \* clock ticks in one calendar day (UTC)
MaxAgeDays == 1       \* cleanup thresholds tried: 0..MaxAgeDays
MaxId == 2            \* AUTOINCREMENT ids handed out: 1..MaxId
MaxCalls == 2         \* analyze_code calls counted by cache_hits + cache_misses
MaxInstant == 8       \* the clock of the Gemini client runs over 0..MaxInstant seconds
MaxInterval == 3      \* configured minimum request intervals: 1..MaxInterval seconds
MaxOversleep == 1     \* a sleep lasts 0..MaxOversleep seconds longer than asked
MaxPackages == 2      \* cargo metadata reports up to MaxPackages packages
MaxFlags == 2         \* calculate_risk_score is given up to MaxFlags metadata flags
MaxPatterns == 2      \* ... and up to MaxPatterns flagged patterns
MaxWordLen == 3       \* characters of a name levenshtein_distance is called with
MaxDeps == 3          \* declared dependencies of a package given to analyze_dependency_tree
MaxDaysOld == 9       \* whole days between crate.created_at and now, either way

\* ------------------------------------------------------ program constants
SepT == 84            \* 'T' between date and time in Utc::now().to_rfc3339()
SepSpace == 32        \* ' ' between date and time in SQLite datetime()
HashBase == 16        \* radix of the "{:x}" digest rendering
ClearAgeDays == 0     \* cleanup_old_entries(0) of the cache clear command

\* ------------------------------------------------------------ input sets
\* Prompts are sequences of tokens; the tokens the two regexes look for are
\* atomic ("Package: ", " v", "File:", ".rs", newline, blank).
NL == "\n"
Prompts ==
  { <<"Package: ", "serde", " v", "1.0", NL, "dep_a">>,
    <<"Package: ", "serde", " v", "1.0", NL, "dep_b">>,
    <<"File:", " ", "main", ".rs", NL, "dep_a">>,
    <<"File:", " ", "main", ".rs", NL, "dep_b">>,
    <<"dep_a">> }

Pat1 == [line |-> 12, severity |-> "High", description |-> "d1", code_snippet |-> "c1"]
Pat2 == [line |-> 7, severity |-> "Low", description |-> "d2", code_snippet |-> "c2"]

\* LlmResponse values the inner client can return
Responses ==
  { [analysis |-> "clean", flagged_patterns |-> <<>>],
    [analysis |-> "risky", flagged_patterns |-> <<Pat1, Pat2>>] }

LlmModel == "gemini-2.5-flash"

\* what direct callers of the database API pass for a key: package names,
\* package versions and the contents whose digest is the content hash
DbKeyInputs ==
  { <<<<"serde">>, <<"1.0">>, <<"Package: ", "serde", " v", "1.0", NL, "dep_a">>>>,
    <<<<"serde">>, <<"1.0">>, <<"Package: ", "serde", " v", "1.0", NL, "dep_b">>>>,
    <<<<"test_package">>, <<"2.0">>, <<"dep_a">>>> }

\* ------------------------------------------------------- text and digests
TokCode(tok) ==
  CASE tok = "Package: " -> 1
    [] tok = " v" -> 2
    [] tok = "File:" -> 3
    [] tok = ".rs" -> 4
    [] tok = NL -> 5
    [] tok = " " -> 6
    [] tok = "serde" -> 7
    [] tok = "1.0" -> 8
    [] tok = "main" -> 9
    [] tok = "dep_a" -> 10
    [] tok = "dep_b" -> 11
    [] OTHER -> 12

RECURSIVE DigestNum(_)
\* Sha256 of the content, as a number: collision free on the modelled inputs
\* (a positional numeral over token codes 1..12 in radix HashBase).
DigestNum(content) ==
  IF content = <<>> THEN 0
  ELSE DigestNum(SubSeq(content, 1, Len(content) - 1)) * HashBase
         + TokCode(content[Len(content)])

\* generate_content_hash: the digest text as <<first 12 characters, the rest>>
generate_content_hash(content) ==
  <<ToString(DigestNum(content) \div HashBase), ToString(DigestNum(content) % HashBase)>>

\* &content_hash[0..12]
ShortHash(hash) == hash[1]

\* ------------------------------------------- extract_metadata_from_prompt
IsSpace(tok) == tok = " " \/ tok = NL

\* all of p[a..b] are characters that "." (and [^\n]) matches
NoNewline(p, a, b) == \A k \in a..b : p[k] # NL

\* Regex "Package: (.+) v(.+)" anchored at position i: the positions j of the
\* " v" that can separate the two groups
PackageSplits(p, i) ==
  { j \in (i + 2)..(Len(p) - 1) :
      /\ p[j] = " v"
      /\ NoNewline(p, i + 1, j - 1)
      /\ p[j + 1] # NL }

PackageStarts(p) ==
  { i \in 1..Len(p) : p[i] = "Package: " /\ PackageSplits(p, i) # {} }

\* end of the greedy (.+) that starts at position s
LineEnd(p, s) ==
  CHOOSE e \in s..Len(p) :
    /\ NoNewline(p, s, e)
    /\ (e = Len(p) \/ p[e + 1] = NL)

Max(S) == CHOOSE x \in S : \A y \in S : y <= x
Min(S) == CHOOSE x \in S : \A y \in S : x <= y

\* Regex "File:\s*([^\n]+\.rs)" anchored at position i with k blanks eaten by
\* \s*: the positions e of the closing ".rs"
FileEnds(p, i, k) ==
  { e \in (i + k + 2)..Len(p) :
      /\ p[e] = ".rs"
      /\ NoNewline(p, i + k + 1, e - 1) }

FileBlanks(p, i) ==
  { k \in 0..(Len(p) - i) :
      /\ \A m \in (i + 1)..(i + k) : IsSpace(p[m])
      /\ FileEnds(p, i, k) # {} }

FileStarts(p) ==
  { i \in 1..Len(p) : p[i] = "File:" /\ FileBlanks(p, i) # {} }

extract_metadata_from_prompt(prompt) ==
  IF PackageStarts(prompt) # {}
  THEN LET i == Min(PackageStarts(prompt))
           j == Max(PackageSplits(prompt, i))
       IN  [package_name |-> SubSeq(prompt, i + 1, j - 1),
            package_version |-> SubSeq(prompt, j + 1, LineEnd(prompt, j + 1)),
            content |-> prompt]
  ELSE IF FileStarts(prompt) # {}
  THEN LET i == Min(FileStarts(prompt))
           k == Max(FileBlanks(prompt, i))
           e == Max(FileEnds(prompt, i, k))
       IN  [package_name |-> SubSeq(prompt, i + k + 1, e),
            package_version |-> <<ShortHash(generate_content_hash(prompt))>>,
            content |-> prompt]
  ELSE [package_name |-> <<"content_", ShortHash(generate_content_hash(prompt))>>,
        package_version |-> <<ShortHash(generate_content_hash(prompt))>>,
        content |-> prompt]

\* --------------------------------------------------------------- serde_json
Digit(d) == CASE d = 0 -> "0" [] d = 1 -> "1" [] d = 2 -> "2" [] d = 3 -> "3"
              [] d = 4 -> "4" [] d = 5 -> "5" [] d = 6 -> "6" [] d = 7 -> "7"
              [] d = 8 -> "8" [] d = 9 -> "9"

DigitStrings == { Digit(d) : d \in 0..9 }

DigitValue(c) == CHOOSE d \in 0..9 : Digit(d) = c

RECURSIVE Itoa(_)
\* decimal rendering of a usize
Itoa(n) == IF n < 10 THEN <<Digit(n)>> ELSE Itoa(n \div 10) \o <<Digit(n % 10)>>

RECURSIVE Atoi(_)
Atoi(ds) ==
  IF Len(ds) = 1 THEN DigitValue(ds[1])
  ELSE Atoi(SubSeq(ds, 1, Len(ds) - 1)) * 10 + DigitValue(ds[Len(ds)])

Quote == "\""

PatternJson(fp) ==
  <<"{", "line">> \o Itoa(fp.line)
    \o <<"severity", Quote, fp.severity, Quote,
         "description", Quote, fp.description, Quote,
         "code_snippet", Quote, fp.code_snippet, Quote, "}">>

RECURSIVE PatternsJson(_)
PatternsJson(fps) ==
  IF fps = <<>> THEN <<>> ELSE PatternJson(Head(fps)) \o PatternsJson(Tail(fps))

\* mutant: only the first pattern is serialized
to_string_first_only(flagged_patterns) ==
  <<"[">> \o (IF flagged_patterns = <<>> THEN <<>>
              ELSE PatternJson(Head(flagged_patterns))) \o <<"]">>

\* serde_json::to_string(&[FlaggedPattern])
to_string(flagged_patterns) == <<"[">> \o PatternsJson(flagged_patterns) \o <<"]">>

\* number of digit tokens at the front of toks
RECURSIVE DigitRun(_)
DigitRun(toks) ==
  IF toks # <<>> /\ Head(toks) \in DigitStrings THEN 1 + DigitRun(Tail(toks)) ELSE 0

Drop(toks, n) == SubSeq(toks, n + 1, Len(toks))

JsonError == [ok |-> FALSE, value |-> <<>>]

RECURSIVE ParsePatterns(_, _)
\* the objects of the array, toks being what follows the patterns in acc
ParsePatterns(toks, acc) ==
  IF toks = <<"]">> THEN [ok |-> TRUE, value |-> acc]
  ELSE IF Len(toks) < 2 \/ toks[1] # "{" \/ toks[2] # "line" THEN JsonError
  ELSE LET n == DigitRun(Drop(toks, 2))
           rest == Drop(toks, 2 + n)
       IN  IF n = 0 \/ Len(rest) < 13 THEN JsonError
           ELSE IF \/ rest[1] # "severity" \/ rest[2] # Quote \/ rest[4] # Quote
                   \/ rest[5] # "description" \/ rest[6] # Quote \/ rest[8] # Quote
                   \/ rest[9] # "code_snippet" \/ rest[10] # Quote \/ rest[12] # Quote
                   \/ rest[13] # "}"
                THEN JsonError
                ELSE ParsePatterns(Drop(rest, 13),
                       Append(acc, [line |-> Atoi(SubSeq(toks, 3, 2 + n)),
                                    severity |-> rest[3],
                                    description |-> rest[7],
                                    code_snippet |-> rest[11]]))

\* serde_json::from_str::<Vec<FlaggedPattern>>
from_str(json) ==
  IF json = <<>> \/ Head(json) # "[" THEN JsonError ELSE ParsePatterns(Tail(json), <<>>)

\* ------------------------------------------------------------- timestamps
Day(t) == t \div TicksPerDay
TimeOfDay(t) == t % TicksPerDay

\* Utc::now().to_rfc3339(): "YYYY-MM-DD" 'T' "hh:mm:ss..." as <<date, sep, time>>
to_rfc3339(t) == <<Day(t), SepT, TimeOfDay(t)>>

\* DateTime::parse_from_rfc3339
parse_from_rfc3339(text) ==
  IF Len(text) = 3 /\ text[2] = SepT
  THEN [ok |-> TRUE, value |-> text[1] * TicksPerDay + text[3]]
  ELSE [ok |-> FALSE, value |-> 0]

\* SQLite datetime('now', '-N days'): "YYYY-MM-DD" ' ' "hh:mm:ss"
datetime_now_minus_days(t, days) == <<Day(t) - days, SepSpace, TimeOfDay(t)>>

RECURSIVE TextLess(_, _)
\* SQLite's comparison of two TEXT values (the fields have fixed width, so
\* comparing them as numbers is comparing them byte by byte)
TextLess(a, b) ==
  IF b = <<>> THEN FALSE
  ELSE IF a = <<>> THEN TRUE
  ELSE IF Head(a) # Head(b) THEN Head(a) < Head(b)
  ELSE TextLess(Tail(a), Tail(b))

\* ------------------------------------------------- RusqliteDatabase (pure)
Key(name, version, hash) ==
  [package_name |-> name, package_version |-> version, content_hash |-> hash]

RowKey(row) == Key(row.package_name, row.package_version, row.content_hash)

\* mutant: the WHERE clause leaves out content_hash
MatchingNameVersion(rows, key) ==
  { r \in rows : /\ r.package_name = key.package_name
                 /\ r.package_version = key.package_version }

\* WHERE package_name = ?1 AND package_version = ?2 AND content_hash = ?3
Matching(rows, key) == { r \in rows : RowKey(r) = key }

LookupErr == [tag |-> "Err", id |-> 0, analysis |-> "", flagged_patterns |-> <<>>]
LookupNone == [tag |-> "None", id |-> 0, analysis |-> "", flagged_patterns |-> <<>>]

\* get_cached_result: Err, Ok(None) or Ok(Some(CachedScanResult))
get_cached_result(rows, key, fault) ==
  IF fault THEN LookupErr
  ELSE IF Matching(rows, key) = {} THEN LookupNone
  ELSE LET row == CHOOSE r \in Matching(rows, key) :
                    \A o \in Matching(rows, key) : ~TextLess(r.scan_date, o.scan_date)
           patterns == from_str(row.flagged_patterns_json)
           date == parse_from_rfc3339(row.scan_date)
       IN  IF ~patterns.ok \/ ~date.ok THEN LookupErr
           ELSE [tag |-> "Some", id |-> row.id, analysis |-> row.analysis,
                 flagged_patterns |-> patterns.value]

\* mutant: a row that was read is evicted
RowsAfterLookupEvict(rows, key) == rows \ Matching(rows, key)

\* the SELECT statement of get_cached_result leaves the table as it is
RowsAfterLookup(rows, key) == rows

\* mutant: the row is written without the analysis text
NewRowBlank(id, key, analysis, flagged_patterns, llm_model, t) ==
  [id |-> id,
   package_name |-> key.package_name,
   package_version |-> key.package_version,
   content_hash |-> key.content_hash,
   analysis |-> "",
   flagged_patterns_json |-> to_string(flagged_patterns),
   scan_date |-> to_rfc3339(t),
   llm_model |-> llm_model]

\* the row written by store_scan_result at time t
NewRow(id, key, analysis, flagged_patterns, llm_model, t) ==
  [id |-> id,
   package_name |-> key.package_name,
   package_version |-> key.package_version,
   content_hash |-> key.content_hash,
   analysis |-> analysis,
   flagged_patterns_json |-> to_string(flagged_patterns),
   scan_date |-> to_rfc3339(t),
   llm_model |-> llm_model]

\* mutant: a plain INSERT with no UNIQUE constraint
InsertPlain(rows, row) == rows \cup {row}

\* INSERT OR REPLACE under UNIQUE(package_name, package_version, content_hash)
\* and id INTEGER PRIMARY KEY AUTOINCREMENT
InsertOrReplace(rows, row) ==
  (rows \ Matching(rows, RowKey(row))) \cup {row}

\* mutant: INSERT OR IGNORE, an existing row of the key is kept
store_scan_result_ignore(rows, seq, key, analysis, flagged_patterns, llm_model, t, fault) ==
  IF fault \/ Matching(rows, key) # {} THEN rows
  ELSE rows \cup {NewRow(seq + 1, key, analysis, flagged_patterns, llm_model, t)}

\* store_scan_result: the table after the call
store_scan_result(rows, seq, key, analysis, flagged_patterns, llm_model, t, fault) ==
  IF fault THEN rows
  ELSE InsertOrReplace(rows, NewRow(seq + 1, key, analysis, flagged_patterns, llm_model, t))

\* WHERE scan_date < datetime('now', '-' || ?1 || ' days')
Expired(rows, t, max_age_days) ==
  { r \in rows : TextLess(r.scan_date, datetime_now_minus_days(t, max_age_days)) }

\* cleanup_old_entries: the table after the call
cleanup_old_entries(rows, t, max_age_days, fault) ==
  IF fault THEN rows ELSE rows \ Expired(rows, t, max_age_days)

\* ------------------------------------------- llm_client.rs: JSON payloads
\* Texts are strings; Len, \o and SubSeq work on them character by character.
contains(s, pattern) ==
  \E i \in 1..(Len(s) - Len(pattern) + 1) : SubSeq(s, i, i + Len(pattern) - 1) = pattern

\* Option values: None, or Some(x)
None == <<>>
Some(x) == <<x>>

\* serde_json::Value; an object is its keys in map order and their values
JNull == [t |-> "null", s |-> "", n |-> 0, keys |-> <<>>, vals |-> <<>>]
JStr(s) == [t |-> "str", s |-> s, n |-> 0, keys |-> <<>>, vals |-> <<>>]
JNum(n) == [t |-> "num", s |-> "", n |-> n, keys |-> <<>>, vals |-> <<>>]
JArr(vals) == [t |-> "arr", s |-> "", n |-> 0, keys |-> <<>>, vals |-> vals]
JObj(keys, vals) == [t |-> "obj", s |-> "", n |-> 0, keys |-> keys, vals |-> vals]

\* Value::get(key), Value::as_array, Value::as_str on an Option<&Value>
get(v, key) ==
  IF v.t = "obj" /\ \E i \in 1..Len(v.keys) : v.keys[i] = key
  THEN Some(v.vals[CHOOSE i \in 1..Len(v.keys) : v.keys[i] = key])
  ELSE None

as_array(opt) == IF opt # None /\ opt[1].t = "arr" THEN Some(opt[1].vals) ELSE None
as_str(opt) == IF opt # None /\ opt[1].t = "str" THEN Some(opt[1].s) ELSE None

\* Method 1: candidates[0].content.parts[0].text of the standard structure
EnvelopeText(json_value) ==
  LET candidates == as_array(get(json_value, "candidates"))
  IN  IF candidates = None \/ candidates[1] = <<>> THEN None
      ELSE LET content == get(candidates[1][1], "content")
           IN  IF content = None THEN None
               ELSE LET parts == as_array(get(content[1], "parts"))
                    IN  IF parts = None \/ parts[1] = <<>> THEN None
                        ELSE as_str(get(parts[1][1], "text"))

\* serde_json::from_value::<GeminiResponse>: a struct decodes from an object
\* (by field name, unknown fields ignored) or from an array of exactly its
\* fields (by position); an Option field is None when missing or null
I32Max == 2147483647

IsStruct(v, nfields) == v.t = "obj" \/ (v.t = "arr" /\ Len(v.vals) = nfields)

field(v, name, index) ==
  LET f == IF v.t = "obj" THEN get(v, name) ELSE Some(v.vals[index])
  IN  IF f # None /\ f[1].t = "null" THEN None ELSE f

DecodesString(f) == f = None \/ f[1].t = "str"
DecodesI32(f) == f = None \/ (f[1].t = "num" /\ f[1].n >= (-I32Max - 1) /\ f[1].n <= I32Max)

DecodesGeminiError(v) ==
  /\ IsStruct(v, 2)
  /\ DecodesI32(field(v, "code", 1))
  /\ DecodesString(field(v, "message", 2))

DecodesGeminiPart(v) == IsStruct(v, 1) /\ DecodesString(field(v, "text", 1))

DecodesGeminiContent(v) ==
  /\ IsStruct(v, 1)
  /\ LET parts == field(v, "parts", 1)
     IN  parts = None \/ (parts[1].t = "arr" /\
                          \A i \in 1..Len(parts[1].vals) : DecodesGeminiPart(parts[1].vals[i]))

DecodesGeminiCandidate(v) ==
  /\ IsStruct(v, 2)
  /\ LET content == field(v, "content", 1)
     IN  content = None \/ DecodesGeminiContent(content[1])
  /\ DecodesString(field(v, "finishReason", 2))

DecodesGeminiResponse(v) ==
  /\ IsStruct(v, 2)
  /\ LET candidates == field(v, "candidates", 1)
     IN  candidates = None \/ (candidates[1].t = "arr" /\
            \A i \in 1..Len(candidates[1].vals) : DecodesGeminiCandidate(candidates[1].vals[i]))
  /\ LET error == field(v, "error", 2)
     IN  error = None \/ DecodesGeminiError(error[1])

\* gemini_response.error of a payload that decodes
gemini_error(v) == field(v, "error", 2)

\* "Gemini API error {code}: {message}"
GeminiApiErrorText(error) ==
  LET code == field(error, "code", 1)
      message == field(error, "message", 2)
  IN  "Gemini API error " \o (IF code = None THEN "0" ELSE ToString(code[1].n))
        \o ": " \o (IF message = None THEN "Unknown error" ELSE message[1].s)

\* candidates[0].content.parts[0].text of the decoded GeminiResponse
StructuredText(v) ==
  LET candidates == field(v, "candidates", 1)
  IN  IF candidates = None \/ candidates[1].vals = <<>> THEN None
      ELSE LET content == field(candidates[1].vals[1], "content", 1)
           IN  IF content = None THEN None
               ELSE LET parts == field(content[1], "parts", 1)
                    IN  IF parts = None \/ parts[1].vals = <<>> THEN None
                        ELSE LET text == field(parts[1].vals[1], "text", 1)
                             IN  IF text = None THEN None ELSE Some(text[1].s)

\* find_text_in_json: the first string of more than 10 characters that holds
\* a marker, looking at the common text fields first and then at every value
TextMarkers == {"ANALYSIS:", "security", "analysis"}
CommonTextFields == <<"text", "content", "message", "response", "analysis">>

RECURSIVE find_text_in_json(_)
RECURSIVE FirstFound(_)

\* the first Some of a sequence of values searched in order
FirstFound(values) ==
  IF values = <<>> THEN None
  ELSE LET found == find_text_in_json(Head(values))
       IN  IF found # None THEN found ELSE FirstFound(Tail(values))

find_text_in_json(value) ==
  CASE value.t = "str" ->
         IF Len(value.s) > 10 /\ \E m \in TextMarkers : contains(value.s, m)
         THEN Some(value.s) ELSE None
    [] value.t = "obj" ->
         LET common == [i \in 1..Len(CommonTextFields) |-> get(value, CommonTextFields[i])]
             present == SelectSeq(common, LAMBDA f : f # None)
             by_key == FirstFound([i \in 1..Len(present) |-> present[i][1]])
         IN  IF by_key # None THEN by_key ELSE FirstFound(value.vals)
    [] value.t = "arr" -> FirstFound(value.vals)
    [] OTHER -> None

\* Method 5: the first direct field of the list that is a string of more
\* than 10 characters
DirectTextFields == <<"text", "content", "message", "response", "output", "result">>

DirectFieldText(json_value) ==
  LET long == { i \in 1..Len(DirectTextFields) :
                  LET s == as_str(get(json_value, DirectTextFields[i]))
                  IN  s # None /\ Len(s[1]) > 10 }
  IN  IF json_value.t # "obj" \/ long = {} THEN None
      ELSE as_str(get(json_value, DirectTextFields[Min(long)]))

\* Method 6: candidates[0].finishReason is "MAX_TOKENS"
IsMaxTokens(json_value) ==
  LET candidates == as_array(get(json_value, "candidates"))
  IN  /\ candidates # None
      /\ candidates[1] # <<>>
      /\ as_str(get(candidates[1][1], "finishReason")) = Some("MAX_TOKENS")

TruncatedAnalysis ==
  "ANALYSIS: Code analysis was truncated due to size limitations. The file is large and requires manual review for comprehensive security analysis. Focus on reviewing imports, unsafe blocks, network operations, and file system access patterns."

BasicAnalysis ==
  "ANALYSIS: Analysis completed but response format was unexpected. The code was processed by the LLM but the response structure was not in the expected format. Manual review recommended."

\* results of the client's functions: Ok(text) or Err(variant(text));
\* method is the extraction method that returned
OkText(text, method) == [ok |-> TRUE, text |-> text, variant |-> "", method |-> method]
ErrText(variant, text, method) ==
  [ok |-> FALSE, text |-> text, variant |-> variant, method |-> method]

\* mutant: a payload nothing matches is an error
LastResortErr(json_value) == ErrText("Other", "Unexpected response format", 7)

\* Method 7: the synthetic analysis when nothing else matches
LastResort(json_value) == OkText(BasicAnalysis, 7)

\* mutant: the fixed field names are tried before the recursive search
extract_text_fields_first(json_value) ==
  IF EnvelopeText(json_value) # None THEN OkText(EnvelopeText(json_value)[1], 1)
  ELSE IF json_value.t = "str" /\ Len(json_value.s) > 20 THEN OkText(json_value.s, 2)
  ELSE IF DecodesGeminiResponse(json_value) /\ gemini_error(json_value) # None
       THEN ErrText("ApiError", GeminiApiErrorText(gemini_error(json_value)[1]), 3)
  ELSE IF DecodesGeminiResponse(json_value) /\ StructuredText(json_value) # None
       THEN OkText(StructuredText(json_value)[1], 3)
  ELSE IF DirectFieldText(json_value) # None THEN OkText(DirectFieldText(json_value)[1], 5)
  ELSE IF find_text_in_json(json_value) # None THEN OkText(find_text_in_json(json_value)[1], 4)
  ELSE IF IsMaxTokens(json_value) THEN OkText(TruncatedAnalysis, 6)
  ELSE LastResort(json_value)

\* the seven methods, in order
extract_text_from_response(json_value) ==
  IF EnvelopeText(json_value) # None THEN OkText(EnvelopeText(json_value)[1], 1)
  ELSE IF json_value.t = "str" /\ Len(json_value.s) > 20 THEN OkText(json_value.s, 2)
  ELSE IF DecodesGeminiResponse(json_value) /\ gemini_error(json_value) # None
       THEN ErrText("ApiError", GeminiApiErrorText(gemini_error(json_value)[1]), 3)
  ELSE IF DecodesGeminiResponse(json_value) /\ StructuredText(json_value) # None
       THEN OkText(StructuredText(json_value)[1], 3)
  ELSE IF find_text_in_json(json_value) # None THEN OkText(find_text_in_json(json_value)[1], 4)
  ELSE IF DirectFieldText(json_value) # None THEN OkText(DirectFieldText(json_value)[1], 5)
  ELSE IF IsMaxTokens(json_value) THEN OkText(TruncatedAnalysis, 6)
  ELSE LastResort(json_value)

\* ------------------------------- llm_client.rs: parse_analysis_response
\* str::find: the index of the first occurrence of pattern, 0 when there is none
find(s, pattern) ==
  LET at == { i \in 1..(Len(s) - Len(pattern) + 1) :
                SubSeq(s, i, i + Len(pattern) - 1) = pattern }
  IN  IF at = {} THEN 0 ELSE Min(at)

starts_with(s, pattern) == Len(s) >= Len(pattern) /\ SubSeq(s, 1, Len(pattern)) = pattern

Whitespace == {" ", "\n", "\t", "\r"}

\* str::trim
trim(s) ==
  LET solid == { i \in 1..Len(s) : SubSeq(s, i, i) \notin Whitespace }
  IN  IF solid = {} THEN "" ELSE SubSeq(s, Min(solid), Max(solid))

\* str::lines: the pieces between line feeds, without a trailing empty piece
RECURSIVE lines(_)
lines(s) ==
  IF s = "" THEN <<>>
  ELSE LET nl == find(s, "\n")
       IN  IF nl = 0 THEN <<s>>
           ELSE <<SubSeq(s, 1, nl - 1)>> \o lines(SubSeq(s, nl + 1, Len(s)))

\* the length of the run of decimal digits of s that starts at index i
RECURSIVE DigitsFrom(_, _)
DigitsFrom(s, i) ==
  IF i <= Len(s) /\ SubSeq(s, i, i) \in DigitStrings THEN 1 + DigitsFrom(s, i + 1) ELSE 0

Severities == <<"High", "Medium", "Low">>

\* pattern_regex matched at index i of a line: the four groups, or None.
\* "- Line: (\d+), Severity: (High|Medium|Low), Description: ([^,]+), Code: (.+)"
CapturesAt(line, i) ==
  LET rest(k) == SubSeq(line, k, Len(line))
      d0 == i + Len("- Line: ")
      nd == DigitsFrom(line, d0)
      s0 == d0 + nd + Len(", Severity: ")
      sevs == { k \in 1..Len(Severities) : starts_with(rest(s0), Severities[k]) }
      sev == Severities[Min(sevs)]
      e0 == s0 + Len(sev) + Len(", Description: ")
      comma == find(rest(e0), ",")
      c0 == e0 + comma - 1 + Len(", Code: ")
  IN  IF /\ starts_with(rest(i), "- Line: ")
         /\ nd >= 1
         /\ starts_with(rest(d0 + nd), ", Severity: ")
         /\ sevs # {}
         /\ starts_with(rest(s0 + Len(sev)), ", Description: ")
         /\ comma >= 2
         /\ starts_with(rest(e0 + comma - 1), ", Code: ")
         /\ c0 <= Len(line)
      THEN Some([line |-> SubSeq(line, d0, d0 + nd - 1), severity |-> sev,
                 description |-> SubSeq(line, e0, e0 + comma - 2),
                 code_snippet |-> rest(c0)])
      ELSE None

\* pattern_regex.captures(line): the leftmost match
captures(line) ==
  LET at == { i \in 1..Len(line) : CapturesAt(line, i) # None }
  IN  IF at = {} THEN None ELSE CapturesAt(line, Min(at))

\* str::parse::<usize> of a run of digits: None when it exceeds usize::MAX
UsizeMaxDigits == <<1,8,4,4,6,7,4,4,0,7,3,7,0,9,5,5,1,6,1,5>>

RECURSIVE DigitsValue(_)
DigitsValue(ds) ==
  IF ds = "" THEN 0
  ELSE DigitsValue(SubSeq(ds, 1, Len(ds) - 1)) * 10 + DigitValue(SubSeq(ds, Len(ds), Len(ds)))

RECURSIVE StripZeros(_)
StripZeros(ds) ==
  IF Len(ds) > 1 /\ SubSeq(ds, 1, 1) = "0" THEN StripZeros(SubSeq(ds, 2, Len(ds))) ELSE ds

ExceedsUsize(ds) ==
  LET sig == StripZeros(ds)
      differ == { i \in 1..Len(sig) : DigitValue(SubSeq(sig, i, i)) # UsizeMaxDigits[i] }
  IN  \/ Len(sig) > Len(UsizeMaxDigits)
      \/ /\ Len(sig) = Len(UsizeMaxDigits)
         /\ differ # {}
         /\ DigitValue(SubSeq(sig, Min(differ), Min(differ))) > UsizeMaxDigits[Min(differ)]

parse_usize(ds) == IF ExceedsUsize(ds) THEN None ELSE Some(DigitsValue(ds))

\* the patterns of the lines of the PATTERNS: section, in order; None when a
\* line number does not parse (the ? of the map_err)
RECURSIVE ParsePatternLines(_)
ParsePatternLines(ls) ==
  IF ls = <<>> THEN Some(<<>>)
  ELSE LET caps == captures(trim(Head(ls)))
           more == ParsePatternLines(Tail(ls))
       IN  IF caps = None THEN more
           ELSE IF parse_usize(caps[1].line) = None THEN None
           ELSE IF more = None THEN None
           ELSE Some(<<[line |-> parse_usize(caps[1].line)[1],
                        severity |-> caps[1].severity,
                        description |-> trim(caps[1].description),
                        code_snippet |-> trim(caps[1].code_snippet)]>> \o more[1])

DefaultAnalysis == "Security analysis completed."

\* mutant: an empty analysis is returned as it is
ParseOkAsIs(analysis, patterns) ==
  [ok |-> TRUE, analysis |-> analysis,
   flagged_patterns |-> patterns, variant |-> "", text |-> ""]

\* Ok((analysis, patterns)) or Err(Other("Invalid line number"))
ParseOk(analysis, patterns) ==
  [ok |-> TRUE, analysis |-> IF analysis = "" THEN DefaultAnalysis ELSE analysis,
   flagged_patterns |-> patterns, variant |-> "", text |-> ""]
ParseErr(variant, text) ==
  [ok |-> FALSE, analysis |-> "", flagged_patterns |-> <<>>, variant |-> variant, text |-> text]

parse_analysis_response(response) ==
  LET analysis_start == find(response, "ANALYSIS:")
      analysis_section == SubSeq(response, analysis_start + Len("ANALYSIS:"), Len(response))
      patterns_start == find(analysis_section, "PATTERNS:")
      patterns_section == SubSeq(analysis_section, patterns_start + Len("PATTERNS:"),
                                 Len(analysis_section))
      patterns == ParsePatternLines(lines(patterns_section))
  IN  IF analysis_start = 0 THEN ParseOk(trim(response), <<>>)
      ELSE IF patterns_start = 0 THEN ParseOk(trim(analysis_section), <<>>)
      ELSE IF patterns = None THEN ParseErr("Other", "Invalid line number")
      ELSE ParseOk(trim(SubSeq(analysis_section, 1, patterns_start - 1)), patterns[1])

\* ---------------------------- llm_client.rs: one request and its answer
\* serde_json's compact text of a value
RECURSIVE to_json_text(_)
RECURSIVE JoinJson(_, _)

JoinJson(v, i) ==
  IF i > Len(v.vals) THEN ""
  ELSE (IF i > 1 THEN "," ELSE "")
       \o (IF v.t = "obj" THEN "\"" \o v.keys[i] \o "\":" ELSE "")
       \o to_json_text(v.vals[i]) \o JoinJson(v, i + 1)

to_json_text(v) ==
  CASE v.t = "null" -> "null"
    [] v.t = "str" -> "\"" \o v.s \o "\""
    [] v.t = "num" -> ToString(v.n)
    [] v.t = "arr" -> "[" \o JoinJson(v, 1) \o "]"
    [] OTHER -> "{" \o JoinJson(v, 1) \o "}"

\* the structure the API documents: candidates[0].content.parts[0].text
Envelope(text) ==
  JObj(<<"candidates">>,
       <<JArr(<<JObj(<<"content", "finishReason">>,
                     <<JObj(<<"parts">>, <<JArr(<<JObj(<<"text">>, <<JStr(text)>>)>>)>>),
                       JStr("STOP")>>)>>)>>)

ErrorObject(code, message) == JObj(<<"code", "message">>, <<code, message>>)

CleanText == "ANALYSIS: No significant security issues detected."
RiskyText ==
  "ANALYSIS: risky\n\nPATTERNS:\n- Line: 12, Severity: High, Description: d1, Code: c1\n- Line: 7, Severity: Low, Description: d2, Code: c2"

\* JSON documents an answer with a success status can carry
Payloads ==
  { Envelope(CleanText),
    Envelope(RiskyText),
    Envelope(""),
    JObj(<<"candidates", "error">>,
         <<Envelope(CleanText).vals[1], ErrorObject(JNum(500), JStr("internal"))>>),
    JObj(<<>>, <<>>),
    JObj(<<"usageMetadata">>, <<JNum(7)>>),
    JObj(<<"error">>, <<ErrorObject(JNum(429), JStr("quota exceeded"))>>),
    JObj(<<"error">>, <<ErrorObject(JNum(503), JStr("The model is overloaded"))>>),
    JObj(<<"error">>, <<JObj(<<>>, <<>>)>>),
    JObj(<<"error">>, <<JStr("backend failure")>>),
    JObj(<<"error">>, <<ErrorObject(JStr("RESOURCE_EXHAUSTED"), JStr("quota exceeded"))>>),
    JObj(<<"error">>, <<JNull>>),
    JObj(<<"candidates", "error">>,
         <<JStr("none"), ErrorObject(JNum(400), JStr("request rejected"))>>),
    JObj(<<"candidates">>,
         <<JArr(<<JObj(<<"content", "finishReason">>,
                       <<JObj(<<"role">>, <<JStr("model")>>), JStr("MAX_TOKENS")>>)>>)>>),
    JObj(<<"output">>, <<JStr("Everything looks fine here")>>),
    JObj(<<"message">>, <<JStr("analysis of the code: nothing found")>>),
    JArr(<<JNull, ErrorObject(JNum(1), JNull)>>),
    JArr(<<>>) }

\* serde_json::from_str: the value whose text the body is, None when the
\* body is no JSON document
from_str_value(response_text) ==
  IF \E v \in Payloads : to_json_text(v) = response_text
  THEN Some(CHOOSE v \in Payloads : to_json_text(v) = response_text)
  ELSE None

\* what the HTTP exchange of one request gives: no answer (connection
\* failure, timeout), or a status line and a body
NoAnswer == [sent |-> FALSE, status |-> 0, reason |-> "", body |-> ""]
Answer(status, reason, body) ==
  [sent |-> TRUE, status |-> status, reason |-> reason, body |-> body]

Outcomes ==
  { NoAnswer,
    Answer(429, "Too Many Requests", "quota exceeded for this project"),
    Answer(429, "Too Many Requests", "slow down"),
    Answer(400, "Bad Request", "Request contains an invalid argument."),
    Answer(400, "Bad Request",
           "{\"error\":{\"code\":400,\"message\":\"API key not valid. Please pass a valid API key.\",\"status\":\"INVALID_ARGUMENT\"}}"),
    Answer(500, "Internal Server Error", "internal error"),
    Answer(500, "Internal Server Error", "backend reported an invalid state"),
    Answer(503, "Service Unavailable", "quota service unreachable"),
    Answer(200, "OK", "<html>502 Bad Gateway</html>"),
    Answer(200, "OK", ""),
    Answer(200, "OK", "\"No significant security issues detected.\""),
    Answer(200, "OK", "{\"candidates\": [") }
  \cup { Answer(200, "OK", to_json_text(v)) : v \in Payloads }

\* StatusCode::is_success
is_success(status) == status >= 200 /\ status < 300

\* the result of an attempt: Ok(LlmResponse) or Err(LlmClientError)
\* the result of one attempt: Ok(LlmResponse) or Err(LlmClientError); json and
\* extracted keep what the attempt decoded and extracted on its way
AttemptOk(analysis, flagged_patterns) ==
  [ok |-> TRUE, analysis |-> analysis, flagged_patterns |-> flagged_patterns,
   variant |-> "", text |-> "", json |-> None, extracted |-> None]
AttemptErr(variant, text) ==
  [ok |-> FALSE, analysis |-> "", flagged_patterns |-> <<>>, variant |-> variant, text |-> text,
   json |-> None, extracted |-> None]

NonJsonPreview == 200

\* parse_analysis_response(...)? at the end of try_single_api_request
ParsedResult(parsed) ==
  IF ~parsed.ok THEN AttemptErr(parsed.variant, parsed.text)
  ELSE AttemptOk(parsed.analysis, parsed.flagged_patterns)

\* the match on extract_text_from_response; the attempt keeps what was extracted
ExtractedResult(extracted) ==
  [(IF ~extracted.ok THEN AttemptErr(extracted.variant, extracted.text)
    ELSE ParsedResult(parse_analysis_response(extracted.text)))
   EXCEPT !.extracted = Some(extracted)]

\* the match on serde_json::from_str::<serde_json::Value>; the attempt keeps
\* the decoded value
DecodedResult(json_value) ==
  IF json_value = None THEN AttemptErr("JsonError", "EOF while parsing")
  ELSE [ExtractedResult(extract_text_from_response(json_value[1])) EXCEPT !.json = json_value]

\* the body of a successful answer: refused unless it looks like JSON
BodyResult(response_text, trimmed) ==
  IF ~starts_with(trimmed, "{") /\ ~starts_with(trimmed, "[")
  THEN AttemptErr("ApiError", "Non-JSON response received: "
                    \o (IF Len(response_text) > NonJsonPreview
                        THEN SubSeq(response_text, 1, NonJsonPreview)
                        ELSE response_text))
  ELSE DecodedResult(from_str_value(response_text))

\* try_single_api_request from the answer of send() on
AnswerResult(outcome) ==
  IF ~outcome.sent THEN AttemptErr("HttpRequest", "error sending request")
  ELSE IF ~is_success(outcome.status)
  THEN AttemptErr("ApiError", "API request failed with status "
                    \o ToString(outcome.status) \o " " \o outcome.reason
                    \o ": " \o outcome.body)
  ELSE BodyResult(outcome.body, trim(outcome.body))

\* the results, computed once for every outcome
try_single_api_request == [o \in Outcomes |-> AnswerResult(o)]

\* ---------------------------------- llm_client.rs: the retry schedule
MaxRetries == 2       \* make_api_request_with_retry(&request, 2)
BackoffBase == 2      \* 2_u64.pow(attempt)
BackoffCap == 60      \* .min(60)
DefaultInterval == 2  \* GeminiClient::new: Duration::from_secs(2)

RECURSIVE pow(_, _)
pow(base, exp) == IF exp = 0 THEN 1 ELSE base * pow(base, exp - 1)

\* mutant: a constant backoff delay
BackoffDelayFlat(attempt) == BackoffBase

\* the delay slept before attempt k >= 1
BackoffDelay(attempt) == Min({pow(BackoffBase, attempt), BackoffCap})

\* the errors the loop breaks on: an ApiError whose text holds "quota" or "invalid"
NoRetry(error) ==
  /\ error.variant = "ApiError"
  /\ (contains(error.text, "quota") \/ contains(error.text, "invalid"))

\* -------------------------------------- dependency_scanner.rs: pure parts
\* DependencyScanner::new: the three name lists
known_malicious == {"malicious-example"}

popular_packages == {"serde", "tokio", "clap", "reqwest", "anyhow", "thiserror"}

trusted_packages ==
  {"serde", "tokio", "clap", "anyhow", "thiserror", "regex", "chrono", "uuid", "log",
   "once_cell", "parking_lot", "rayon"}

suspicious_patterns ==
  {"steal", "hack", "backdoor", "malware", "virus", "trojan", "keylog", "password",
   "credit", "bank", "wallet", "bitcoin", "mining", "miner", "crypto", "shell", "reverse",
   "payload"}

\* one row of the matrix of levenshtein_distance: row[j + 1] is
\* matrix[i + 1][j], c1 the character i of s1 and prev the row matrix[i]
RECURSIVE FillRow(_, _, _, _)
FillRow(prev, c1, s2, row) ==
  IF Len(row) = Len(s2) + 1 THEN row
  ELSE FillRow(prev, c1, s2,
         Append(row, Min({prev[Len(row) + 1] + 1,
                          row[Len(row)] + 1,
                          prev[Len(row)] + (IF c1 = SubSeq(s2, Len(row), Len(row)) THEN 0 ELSE 1)})))

RECURSIVE Rows(_, _, _, _)
Rows(s1, s2, i, prev) ==
  IF i > Len(s1) THEN prev[Len(s2) + 1]
  ELSE Rows(s1, s2, i + 1, FillRow(prev, SubSeq(s1, i, i), s2, <<prev[1] + 1>>))

\* mutant: the first row of the matrix is left at zero
levenshtein_distance_zero_row(s1, s2) == Rows(s1, s2, 1, [j \in 1..(Len(s2) + 1) |-> 0])

levenshtein_distance(s1, s2) == Rows(s1, s2, 1, [j \in 1..(Len(s2) + 1) |-> j - 1])

\* the largest distance is_similar_name accepts
SimilarDistance == 2

\* mutant: names three edits apart count as similar
is_similar_name_within_3(name1, name2) ==
  /\ levenshtein_distance(name1, name2) <= SimilarDistance + 1
  /\ levenshtein_distance(name1, name2) > 0

is_similar_name(name1, name2) ==
  /\ levenshtein_distance(name1, name2) <= SimilarDistance
  /\ levenshtein_distance(name1, name2) > 0

\* check_typosquatting: the popular names it can return, Some(popular_name)
\* for the first similar name in the iteration order of the HashMap, which
\* is unspecified; {None} when no popular name is similar
check_typosquatting(package_name) ==
  LET similar == { popular_name \in popular_packages :
                     /\ is_similar_name(package_name, popular_name)
                     /\ package_name # popular_name }
  IN  IF similar = {} THEN {None} ELSE { Some(popular_name) : popular_name \in similar }

\* mutant: every package off the trusted list gets the deep analysis
should_analyze_with_llm_untrusted(package_name) == package_name \notin trusted_packages

\* mutant: the name is not searched for suspicious substrings
should_analyze_with_llm_lists_only(package_name) ==
  IF package_name \in trusted_packages THEN FALSE
  ELSE IF package_name \in known_malicious THEN TRUE
  ELSE None \notin check_typosquatting(package_name)

should_analyze_with_llm(package_name) ==
  IF package_name \in trusted_packages THEN FALSE
  ELSE IF package_name \in known_malicious THEN TRUE
  ELSE IF None \notin check_typosquatting(package_name) THEN TRUE
  ELSE \E pattern \in suspicious_patterns : contains(package_name, pattern)

\* analyze_dependency_tree: the dependency names behind each capability flag
network_deps == {"reqwest", "hyper", "curl", "ureq", "attohttpc"}

fs_deps == {"walkdir", "glob", "tempfile"}

process_deps == {"tokio-process", "async-process"}

\* the severity each MetadataFlag is built with; "" for the types no flag is
\* built of
FlagSeverity(flag_type) ==
  CASE flag_type = "Typosquatting" -> "High"
    [] flag_type = "RecentPublication" -> "Medium"
    [] flag_type = "LowDownloads" -> "Low"
    [] flag_type = "NetworkingCapabilities" -> "Medium"
    [] flag_type = "FileSystemAccess" -> "Low"
    [] flag_type = "ProcessExecution" -> "High"
    [] OTHER -> ""

Flag(flag_type, similar) ==
  [flag_type |-> flag_type, similar |-> similar, severity |-> FlagSeverity(flag_type)]

\* the elements of a sequence
Range(seq) == { seq[k] : k \in 1..Len(seq) }

\* mutant: one networking flag for every networking dependency
analyze_dependency_tree_each(package) ==
  [k \in 1..Len(SelectSeq(package.dependencies, LAMBDA name : name \in network_deps)) |->
     Flag("NetworkingCapabilities", "")]
  \o (IF Range(package.dependencies) \cap fs_deps # {}
      THEN <<Flag("FileSystemAccess", "")>> ELSE <<>>)
  \o (IF Range(package.dependencies) \cap process_deps # {}
      THEN <<Flag("ProcessExecution", "")>> ELSE <<>>)

analyze_dependency_tree(package) ==
  (IF Range(package.dependencies) \cap network_deps # {}
   THEN <<Flag("NetworkingCapabilities", "")>> ELSE <<>>)
  \o (IF Range(package.dependencies) \cap fs_deps # {}
      THEN <<Flag("FileSystemAccess", "")>> ELSE <<>>)
  \o (IF Range(package.dependencies) \cap process_deps # {}
      THEN <<Flag("ProcessExecution", "")>> ELSE <<>>)

\* the answers of crates.io to fetch_crates_io_metadata: no answer in 10
\* seconds or a failed request, a status that is not a success, a success
\* whose body is not JSON, or the crate's metadata (age in days and
\* downloads, None when the member is missing)
Unreachable == [kind |-> "unreachable", days_old |-> None, downloads |-> None]
NotFound == [kind |-> "not_found", days_old |-> None, downloads |-> None]
BadJson == [kind |-> "bad_json", days_old |-> None, downloads |-> None]
CrateMetadata(days_old, downloads) ==
  [kind |-> "metadata", days_old |-> days_old, downloads |-> downloads]

RecentDays == 7
LowDownloads == 1000

is_recently_published(metadata) ==
  metadata.days_old # None /\ metadata.days_old[1] <= RecentDays

has_low_downloads(metadata) ==
  IF metadata.downloads # None THEN metadata.downloads[1] < LowDownloads ELSE TRUE

\* the flags of the registry answer; the lookup is Ok(None) unless the
\* crate's metadata came back
RegistryFlags(registry) ==
  IF registry.kind # "metadata" THEN <<>>
  ELSE (IF is_recently_published(registry)
        THEN <<Flag("RecentPublication", "")>> ELSE <<>>)
       \o (IF has_low_downloads(registry) THEN <<Flag("LowDownloads", "")>> ELSE <<>>)

\* analyze_package_metadata when the lookup did not fail; similar is what
\* check_typosquatting returned
analyze_package_metadata(package, similar, registry) ==
  (IF similar # None THEN <<Flag("Typosquatting", similar[1])>> ELSE <<>>)
  \o RegistryFlags(registry)
  \o analyze_dependency_tree(package)

\* mutant: a suspicious author weighs less than process execution
FlagWeightAuthor25(flag) ==
  CASE flag.flag_type = "Typosquatting" -> 50
    [] flag.flag_type = "ProcessExecution" -> 30
    [] flag.flag_type = "NetworkingCapabilities" -> 20
    [] flag.flag_type = "SuspiciousAuthor" -> 25
    [] flag.flag_type = "RecentPublication" -> 15
    [] flag.flag_type = "LowDownloads" -> 10
    [] OTHER -> 5

\* mutant: a typosquatting flag weighs as much as a suspicious author
FlagWeightTypo40(flag) ==
  CASE flag.flag_type = "Typosquatting" -> 40
    [] flag.flag_type = "ProcessExecution" -> 30
    [] flag.flag_type = "NetworkingCapabilities" -> 20
    [] flag.flag_type = "SuspiciousAuthor" -> 40
    [] flag.flag_type = "RecentPublication" -> 15
    [] flag.flag_type = "LowDownloads" -> 10
    [] OTHER -> 5

\* calculate_risk_score
FlagWeight(flag) ==
  CASE flag.flag_type = "Typosquatting" -> 50
    [] flag.flag_type = "ProcessExecution" -> 30
    [] flag.flag_type = "NetworkingCapabilities" -> 20
    [] flag.flag_type = "SuspiciousAuthor" -> 40
    [] flag.flag_type = "RecentPublication" -> 15
    [] flag.flag_type = "LowDownloads" -> 10
    [] OTHER -> 5

PatternWeight(pattern) ==
  CASE pattern.severity = "High" -> 30
    [] pattern.severity = "Medium" -> 15
    [] OTHER -> 5

RECURSIVE SumOver(_, _)
SumOver(Weight(_), seq) ==
  IF seq = <<>> THEN 0 ELSE Weight(Head(seq)) + SumOver(Weight, Tail(seq))

\* mutant: a score of exactly 80 is not Critical yet
RiskLevelAbove(score) ==
  IF score > 80 THEN "Critical"
  ELSE IF score >= 50 THEN "High"
  ELSE IF score >= 25 THEN "Medium"
  ELSE IF score >= 10 THEN "Low"
  ELSE "Clean"

RiskLevel(score) ==
  IF score >= 80 THEN "Critical"
  ELSE IF score >= 50 THEN "High"
  ELSE IF score >= 25 THEN "Medium"
  ELSE IF score >= 10 THEN "Low"
  ELSE "Clean"

calculate_risk_score(metadata_flags, patterns) ==
  RiskLevel(SumOver(FlagWeight, metadata_flags) + SumOver(PatternWeight, patterns))

\* compare_risk_scores orders by these values, highest first
RiskValue(risk_score) ==
  CASE risk_score = "Critical" -> 4
    [] risk_score = "High" -> 3
    [] risk_score = "Medium" -> 2
    [] risk_score = "Low" -> 1
    [] OTHER -> 0

\* mutant: of two results of one tier the later goes first
compare_risk_scores_ties_first(a, b) ==
  IF RiskValue(b) <= RiskValue(a) THEN "Less" ELSE "Greater"

\* a_val and b_val of compare_risk_scores: Less when a goes before b
compare_risk_scores(a, b) ==
  IF RiskValue(b) < RiskValue(a) THEN "Less"
  ELSE IF RiskValue(b) = RiskValue(a) THEN "Equal"
  ELSE "Greater"

\* results.sort_by(compare_risk_scores): a stable sort
RECURSIVE InsertResult(_, _)
InsertResult(sorted, result) ==
  IF sorted = <<>> THEN <<result>>
  ELSE IF compare_risk_scores(result.risk_score, Head(sorted).risk_score) = "Less"
  THEN <<result>> \o sorted
  ELSE <<Head(sorted)>> \o InsertResult(Tail(sorted), result)

RECURSIVE sort_by(_)
sort_by(results) ==
  IF results = <<>> THEN <<>>
  ELSE InsertResult(sort_by(SubSeq(results, 1, Len(results) - 1)), results[Len(results)])

\* the packages cargo metadata can report: name, member of the workspace or
\* not, names of the declared dependencies
Package(name, workspace, dependencies) ==
  [name |-> name, workspace |-> workspace, dependencies |-> dependencies]

Packages ==
  { Package("my_app", TRUE, <<"serde", "reqwest">>),
    Package("serde", FALSE, <<>>),
    Package("reqwest", FALSE, <<"hyper", "tokio">>),
    Package("sede", FALSE, <<>>),
    Package("thiserr", FALSE, <<"glob">>),
    Package("thiser", FALSE, <<>>),
    Package("malicious-example", FALSE, <<"ureq">>),
    Package("backdoor-utils", FALSE, <<"async-process">>) }

RECURSIVE SeqsUpTo(_, _)
SeqsUpTo(S, n) ==
  IF n = 0 THEN {<<>>}
  ELSE SeqsUpTo(S, n - 1)
       \cup { Append(seq, x) : seq \in { t \in SeqsUpTo(S, n - 1) : Len(t) = n - 1 }, x \in S }

\* metadata.packages: up to MaxPackages different packages, in any order
PackageLists ==
  { seq \in SeqsUpTo(Packages, MaxPackages) :
      \A k, l \in 1..Len(seq) : k # l => seq[k] # seq[l] }

\* the three dependencies of the end-to-end example, in any order;
\* backdoor-utils declares no dependency here
EndToEndPackages ==
  { Package("serde", FALSE, <<>>),
    Package("sede", FALSE, <<>>),
    Package("backdoor-utils", FALSE, <<>>) }

EndToEndLists ==
  { seq \in SeqsUpTo(EndToEndPackages, 3) :
      Len(seq) = 3 /\ \A k, l \in 1..3 : k # l => seq[k] # seq[l] }

\* the triage and the typosquatting check of every package, computed once
Triage ==
  [package \in Packages \cup EndToEndPackages |-> should_analyze_with_llm(package.name)]

Typosquatting ==
  [package \in Packages \cup EndToEndPackages |-> check_typosquatting(package.name)]

RegistryAnswers == {Unreachable, NotFound, BadJson, CrateMetadata(Some(3), Some(12))}

\* what llm_client.analyze_code gives download_and_analyze_source within
\* its 45 seconds
LlmOk(analysis, flagged_patterns) ==
  [kind |-> "Ok", analysis |-> analysis, flagged_patterns |-> flagged_patterns]
LlmErr(text) == [kind |-> "Err", analysis |-> text, flagged_patterns |-> <<>>]
LlmTimeout == [kind |-> "Timeout", analysis |-> "", flagged_patterns |-> <<>>]

LlmAnswers ==
  { LlmOk("No significant security issues detected.", <<>>),
    LlmOk("risky", <<Pat1, Pat2>>),
    LlmErr("LLM API error: API request failed with status 429 Too Many Requests: quota exceeded"),
    LlmTimeout }

\* mutant: the note of a failed analysis does not carry the error
SourceAnalysisBareNote(llm) ==
  CASE llm.kind = "Ok" -> [code_analysis |-> llm.analysis, patterns |-> llm.flagged_patterns]
    [] OTHER -> [code_analysis |-> "Failed to analyze source", patterns |-> <<>>]

\* download_and_analyze_source and the match on it in analyze_dependency:
\* the note and the patterns of the unit
SourceAnalysis(llm) ==
  CASE llm.kind = "Ok" -> [code_analysis |-> llm.analysis, patterns |-> llm.flagged_patterns]
    [] llm.kind = "Err" ->
         [code_analysis |-> "Failed to analyze source: LLM analysis failed: " \o llm.analysis,
          patterns |-> <<>>]
    [] OTHER ->
         [code_analysis |-> "Failed to analyze source: LLM analysis timed out",
          patterns |-> <<>>]

DependencyAnalysisResult(package, metadata_flags, patterns, code_analysis) ==
  [package_name |-> package.name,
   risk_score |-> calculate_risk_score(metadata_flags, patterns),
   suspicious_patterns |-> patterns,
   metadata_flags |-> metadata_flags,
   code_analysis |-> code_analysis]

\* analyze_dependency when the registry lookup did not fail
analyze_dependency(package, metadata_flags, llm) ==
  IF package.name \in trusted_packages
  THEN DependencyAnalysisResult(package, metadata_flags, <<>>,
                                "Trusted package - skipped deep analysis")
  ELSE DependencyAnalysisResult(package, metadata_flags, SourceAnalysis(llm).patterns,
                                SourceAnalysis(llm).code_analysis)

\* analyze_dependency_light when the registry lookup did not fail
analyze_dependency_light(package, metadata_flags) ==
  DependencyAnalysisResult(package, metadata_flags, <<>>,
    "Quick scan - no deep code analysis performed for trusted package")

\* the delay between two deep units, in milliseconds
UnitDelay == 4000

\* mutant: the quick scans come first
StageLightFirst(deep_left, light_left) ==
  IF light_left > 0 THEN "light" ELSE IF deep_left > 0 THEN "deep" ELSE "done"

\* the loop scan_dependencies is in when deep_left and light_left units are
\* still to be processed
Stage(deep_left, light_left) ==
  IF deep_left > 0 THEN "deep" ELSE IF light_left > 0 THEN "light" ELSE "done"

\* ------------------------------------------------------------------ state
VARIABLES
  now,              \* the UTC clock, in ticks
  scan_results,     \* rows of the table scan_results
  sqlite_sequence,  \* largest id AUTOINCREMENT has handed out
  client,           \* "absent", "ready" (new returned Ok) or "failed" (new returned Err)
  database,         \* self.database: "Some" or "None"
  cache_hits,       \* self.cache_hits
  cache_misses,     \* self.cache_misses
  pc,               \* "idle", or "calling" while analyze_code awaits the inner client
  request,          \* the prompt of the analyze_code call in flight, with its lookup
  dbret,            \* the database call made by the last step, with its result
  ret,              \* the analyze_code call that returned last
  prevret,          \* the analyze_code call that returned before it
  written,          \* history: the key and payload of every store since the last cleanup
  stored_for        \* history: the content each row id was stored for

\* the state of the Gemini client (llm_client.rs) and of one analyze_code call
VARIABLES
  gemini,                \* "absent", or "ready" once with_rate_limit has built the client
  min_request_interval,  \* self.min_request_interval, in seconds
  instant,               \* Instant::now(), in seconds
  last_request_time,     \* self.last_request_time: None or Some(instant)
  gemini_pc,             \* "idle", or "inflight" while send() is awaited
  attempt,               \* the loop variable of make_api_request_with_retry
  last_error,            \* last_error of make_api_request_with_retry
  waits,                 \* history: the backoff delays slept in the call, by attempt
  dispatch,              \* the request the last step dispatched, if it dispatched one
  answer,                \* the answer the last step processed, with the attempt's result
  returned               \* what the last analyze_code call returned, once it has

cache_vars == <<now, scan_results, sqlite_sequence, client, database, cache_hits,
                cache_misses, pc, request, dbret, ret, prevret, written, stored_for>>

gemini_vars == <<gemini, min_request_interval, instant, last_request_time, gemini_pc,
                 attempt, last_error, waits, dispatch, answer, returned>>


NoDispatch ==
  [made |-> FALSE, attempt |-> 0, backoff |-> 0, since |-> 0, woke |-> 0,
   prev |-> None, rate_wait |-> 0, at |-> 0]

NoAnswerYet == [seen |-> FALSE, attempt |-> 0, outcome |-> NoAnswer,
                result |-> AttemptErr("", "")]

NotReturned == [status |-> "none", result |-> AttemptErr("", ""), dispatches |-> 0]

InitGemini ==
  /\ gemini = "absent"
  /\ min_request_interval = DefaultInterval
  /\ instant = 0
  /\ last_request_time = None
  /\ gemini_pc = "idle"
  /\ attempt = 0
  /\ last_error = None
  /\ waits = <<>>
  /\ dispatch = NoDispatch
  /\ answer = NoAnswerYet
  /\ returned = NotReturned

\* the state of one scan_dependencies call (dependency_scanner.rs)
VARIABLES
  scan_pc,                  \* "idle", "deep" or "light" (the loop it is in), "done"
  packages,                 \* metadata.packages
  dependencies_to_analyze,  \* the units for deep analysis
  low_priority_deps,        \* the units for the quick scan
  deep_done,                \* iterations of the first loop completed
  light_done,               \* iterations of the second loop completed
  results,                  \* results
  scan_ret,                 \* "none", or "Ok" / "Err" once scan_dependencies returned
  processed                 \* history: the units processed, in order

scan_vars == <<scan_pc, packages, dependencies_to_analyze, low_priority_deps, deep_done,
               light_done, results, scan_ret, processed>>

\* one call of a pure function of the scanner or of the client
VARIABLES
  pure_fn,     \* "none", or the name of the function called
  pure_in,     \* its arguments
  pure_out     \* what it returned

pure_vars == <<pure_fn, pure_in, pure_out>>

vars == <<cache_vars, gemini_vars, scan_vars, pure_vars>>

\* the arguments and the return value, one member per function
PureIn(metadata_flags, patterns, json_value, response) ==
  [metadata_flags |-> metadata_flags, patterns |-> patterns, json_value |-> json_value,
   response |-> response]

PureOut(risk_score, extracted, parsed) ==
  [risk_score |-> risk_score, extracted |-> extracted, parsed |-> parsed]

InitPure ==
  /\ pure_fn = "none"
  /\ pure_in = PureIn(<<>>, <<>>, JNull, "")
  /\ pure_out = PureOut("", None, None)

InitScan ==
  /\ scan_pc = "idle"
  /\ packages = <<>>
  /\ dependencies_to_analyze = <<>>
  /\ low_priority_deps = <<>>
  /\ deep_done = 0
  /\ light_done = 0
  /\ results = <<>>
  /\ scan_ret = "none"
  /\ processed = <<>>

NoKey == Key(<<>>, <<>>, <<"", "">>)

DbTrace(op, key, fault, res, analysis, flagged_patterns, count, days, replaced) ==
  [op |-> op, key |-> key, fault |-> fault, res |-> res, analysis |-> analysis,
   flagged_patterns |-> flagged_patterns, count |-> count, max_age_days |-> days,
   replaced |-> replaced]

NoDbCall == DbTrace("none", NoKey, FALSE, "", "", <<>>, 0, 0, {})

LookupTrace(key, fault, found) ==
  DbTrace("lookup", key, fault, found.tag, found.analysis, found.flagged_patterns, 0, 0, {})

\* count is the id store_scan_result returns; replaced holds the analysis
\* texts of the rows the statement replaced
StoreTrace(rows, key, fault, analysis, flagged_patterns, id) ==
  DbTrace("store", key, fault, IF fault THEN "Err" ELSE "Ok", analysis, flagged_patterns,
          IF fault THEN 0 ELSE id, 0,
          IF fault THEN {} ELSE { r.analysis : r \in Matching(rows, key) })

CleanupTrace(fault, count, days) ==
  DbTrace("cleanup", NoKey, fault, IF fault THEN "Err" ELSE "Ok", "", <<>>, count, days, {})

NoCall ==
  [prompt |-> <<>>, key |-> NoKey, status |-> "none", hit |-> FALSE, inner_calls |-> 0,
   inner_ok |-> FALSE,
   lookups |-> 0, lookup_fault |-> FALSE, stores |-> 0, store_fault |-> FALSE,
   store_key |-> NoKey, analysis |-> "", flagged_patterns |-> <<>>, hit_source |-> <<>>]

\* what the next call needs of the call before it
NoPrev == [prompt |-> <<>>, status |-> "none", hit |-> FALSE, store_fault |-> FALSE,
           lookup_fault |-> FALSE, analysis |-> "", flagged_patterns |-> <<>>]

Prev(call) == [prompt |-> call.prompt, status |-> call.status, hit |-> call.hit,
               store_fault |-> call.store_fault, lookup_fault |-> call.lookup_fault,
               analysis |-> call.analysis,
               flagged_patterns |-> call.flagged_patterns]

NoRequest == [prompt |-> <<>>, lookups |-> 0, lookup_fault |-> FALSE]

\* history: the payload last stored under key
Written(key, analysis, flagged_patterns) ==
  [key |-> key, analysis |-> analysis, flagged_patterns |-> flagged_patterns]

Remember(w, key, analysis, flagged_patterns) ==
  { e \in w : e.key # key } \cup { Written(key, analysis, flagged_patterns) }

Init ==
  /\ now = 0
  /\ scan_results = {}
  /\ sqlite_sequence = 0
  /\ client = "absent"
  /\ database = "None"
  /\ cache_hits = 0
  /\ cache_misses = 0
  /\ pc = "idle"
  /\ request = NoRequest
  /\ dbret = NoDbCall
  /\ ret = NoCall
  /\ prevret = NoPrev
  /\ written = {}
  /\ stored_for = <<>>
  /\ InitGemini
  /\ InitScan
  /\ InitPure

\* time passes
Tick ==
  /\ now < MaxTime
  /\ now' = now + 1
  /\ dbret' = NoDbCall
  /\ UNCHANGED <<scan_results, sqlite_sequence, client, database, cache_hits,
                 cache_misses, pc, request, ret, prevret, written, stored_for>>
  /\ UNCHANGED <<gemini_vars, scan_vars, pure_vars>>

\* RusqliteCachedLlmClient::new, called once by the scan command; the
\* environment decides whether the data directory exists, whether it can be
\* created and whether RusqliteDatabase::new succeeds
New(parent_exists, mkdir_ok, open_ok) ==
  /\ client = "absent"
  /\ IF ~parent_exists /\ ~mkdir_ok
     THEN \* fs::create_dir_all(parent)? returns the error to main, which returns it
          /\ client' = "failed"
          /\ database' = "None"
     ELSE /\ client' = "ready"
          /\ database' = IF open_ok THEN "Some" ELSE "None"
  /\ dbret' = NoDbCall
  /\ UNCHANGED <<now, scan_results, sqlite_sequence, cache_hits, cache_misses, pc,
                 request, ret, prevret, written, stored_for>>
  /\ UNCHANGED <<gemini_vars, scan_vars, pure_vars>>

\* the metadata and the content hash analyze_code computes for each prompt
Metadata == [p \in Prompts |-> extract_metadata_from_prompt(p)]
ContentHash == [p \in Prompts |-> generate_content_hash(Metadata[p].content)]

\* the key analyze_code looks up
LookedUpKey(prompt) ==
  Key(Metadata[prompt].package_name, Metadata[prompt].package_version, ContentHash[prompt])

\* mutant: the stored content hash is the digest of the package name
StoreKeyHashOfName(prompt) ==
  Key(Metadata[prompt].package_name, Metadata[prompt].package_version,
      generate_content_hash(Metadata[prompt].package_name))

\* the key analyze_code stores under (cache_package, cache_version, content_hash)
StoreKey(prompt) ==
  LET meta == Metadata[prompt]
      hash == ContentHash[prompt]
  IN  Key(IF meta.package_name = <<>> THEN <<"content_", ShortHash(hash)>>
                                      ELSE meta.package_name,
          IF meta.package_version = <<>> THEN <<ShortHash(hash)>>
                                         ELSE meta.package_version,
          hash)

\* mutant: a miss is counted whether or not there is a database
CountMissAlways(db, misses) == misses + 1

\* self.cache_misses after a call that was not answered by the cache: counted
\* in each branch under `if let Some(ref db) = self.database`, and in none other
CountMiss(db, misses) == IF db = "Some" THEN misses + 1 ELSE misses

\* analyze_code up to its await of the inner client: the cache lookup, and the
\* return of the cached result on a hit
AnalyzeStart(prompt, fault) ==
  /\ client = "ready"
  /\ pc = "idle"
  /\ cache_hits + cache_misses < MaxCalls
  /\ sqlite_sequence < MaxId
  /\ LET meta == Metadata[prompt]
         key == LookedUpKey(prompt)
         looks == database = "Some" /\ meta.package_name # <<>> /\ meta.package_version # <<>>
         found == get_cached_result(scan_results, key, fault)
     IN  /\ dbret' = IF looks THEN LookupTrace(key, fault, found) ELSE NoDbCall
         /\ IF looks /\ found.tag = "Some"
            THEN /\ cache_hits' = cache_hits + 1
                 /\ ret' = [prompt |-> prompt, key |-> key, status |-> "Ok", hit |-> TRUE,
                            inner_calls |-> 0, inner_ok |-> FALSE,
                            lookups |-> 1, lookup_fault |-> FALSE,
                            stores |-> 0, store_fault |-> FALSE, store_key |-> NoKey,
                            analysis |-> found.analysis,
                            flagged_patterns |-> found.flagged_patterns,
                            hit_source |-> stored_for[found.id]]
                 /\ prevret' = Prev(ret)
                 /\ UNCHANGED <<cache_misses, pc, request>>
            ELSE /\ cache_misses' = CountMiss(database, cache_misses)
                 /\ pc' = "calling"
                 /\ request' = [prompt |-> prompt,
                                lookups |-> IF looks THEN 1 ELSE 0,
                                lookup_fault |-> looks /\ fault]
                 /\ UNCHANGED <<cache_hits, ret, prevret>>
  /\ scan_results' = IF database = "Some" /\ Metadata[prompt].package_name # <<>>
                         /\ Metadata[prompt].package_version # <<>>
                      THEN RowsAfterLookup(scan_results, LookedUpKey(prompt))
                      ELSE scan_results
  /\ UNCHANGED <<now, sqlite_sequence, client, database, written, stored_for>>
  /\ UNCHANGED <<gemini_vars, scan_vars, pure_vars>>

\* mutant: the error of store_scan_result is returned with the ? operator
ReturnStatusPropagate(inner_ok, stores, store_fault) ==
  IF inner_ok /\ ~(stores /\ store_fault) THEN "Ok" ELSE "Err"

\* what analyze_code returns after the inner client returned: its error
\* (the ? operator), else Ok whatever store_scan_result returned
ReturnStatus(inner_ok, stores, store_fault) == IF inner_ok THEN "Ok" ELSE "Err"

\* analyze_code from the return of self.inner_client.analyze_code(request) on:
\* Err is returned by the ? operator, Ok is stored and returned
InnerReturn(ok, response, fault) ==
  /\ pc = "calling"
  /\ pc' = "idle"
  /\ request' = NoRequest
  /\ prevret' = Prev(ret)
  /\ LET prompt == request.prompt
         key == StoreKey(prompt)
         stores == ok /\ database = "Some"
     IN  /\ ret' = [prompt |-> prompt, key |-> LookedUpKey(prompt),
                    status |-> ReturnStatus(ok, stores, fault), hit |-> FALSE,
                    inner_calls |-> 1, inner_ok |-> ok, lookups |-> request.lookups,
                    lookup_fault |-> request.lookup_fault,
                    stores |-> IF stores THEN 1 ELSE 0,
                    store_fault |-> stores /\ fault,
                    store_key |-> IF stores THEN key ELSE NoKey,
                    analysis |-> IF ok THEN response.analysis ELSE "",
                    flagged_patterns |-> IF ok THEN response.flagged_patterns ELSE <<>>,
                    hit_source |-> <<>>]
         /\ IF stores
            THEN /\ scan_results' = store_scan_result(scan_results, sqlite_sequence, key,
                                      response.analysis, response.flagged_patterns,
                                      LlmModel, now, fault)
                 /\ dbret' = StoreTrace(scan_results, key, fault, response.analysis,
                                        response.flagged_patterns, sqlite_sequence + 1)
                 /\ IF fault
                    THEN UNCHANGED <<sqlite_sequence, written, stored_for>>
                    ELSE /\ sqlite_sequence' = sqlite_sequence + 1
                         /\ written' = Remember(written, key, response.analysis,
                                                response.flagged_patterns)
                         /\ stored_for' = Append(stored_for, prompt)
            ELSE /\ dbret' = NoDbCall
                 /\ UNCHANGED <<scan_results, sqlite_sequence, written, stored_for>>
  /\ UNCHANGED <<now, client, database, cache_hits, cache_misses>>
  /\ UNCHANGED <<gemini_vars, scan_vars, pure_vars>>

\* analyze_code dropped while it awaits the inner client: the timeout of
\* download_and_analyze_source fires and nothing after the await runs
Cancel ==
  /\ pc = "calling"
  /\ pc' = "idle"
  /\ request' = NoRequest
  /\ prevret' = Prev(ret)
  /\ ret' = [prompt |-> request.prompt, key |-> LookedUpKey(request.prompt),
             status |-> "Cancelled", hit |-> FALSE, inner_calls |-> 1, inner_ok |-> FALSE,
             lookups |-> request.lookups, lookup_fault |-> request.lookup_fault,
             stores |-> 0, store_fault |-> FALSE, store_key |-> NoKey,
             analysis |-> "", flagged_patterns |-> <<>>, hit_source |-> <<>>]
  /\ dbret' = NoDbCall
  /\ UNCHANGED <<now, scan_results, sqlite_sequence, client, database, cache_hits,
                 cache_misses, written, stored_for>>
  /\ UNCHANGED <<gemini_vars, scan_vars, pure_vars>>

\* a direct call of RusqliteDatabase::store_scan_result (as sqlite_test.rs does)
DbStore(name, version, content, response, fault) ==
  /\ pc = "idle"
  /\ sqlite_sequence < MaxId
  /\ LET key == Key(name, version, generate_content_hash(content))
     IN  /\ scan_results' = store_scan_result(scan_results, sqlite_sequence, key,
                              response.analysis, response.flagged_patterns,
                              LlmModel, now, fault)
         /\ dbret' = StoreTrace(scan_results, key, fault, response.analysis,
                                response.flagged_patterns, sqlite_sequence + 1)
         /\ IF fault
            THEN UNCHANGED <<sqlite_sequence, written, stored_for>>
            ELSE /\ sqlite_sequence' = sqlite_sequence + 1
                 /\ written' = Remember(written, key, response.analysis,
                                        response.flagged_patterns)
                 /\ stored_for' = Append(stored_for, content)
  /\ ret' = NoCall
  /\ prevret' = NoPrev
  /\ UNCHANGED <<now, client, database, cache_hits, cache_misses, pc, request>>
  /\ UNCHANGED <<gemini_vars, scan_vars, pure_vars>>

\* a direct call of RusqliteDatabase::get_cached_result
DbLookup(name, version, content, fault) ==
  /\ pc = "idle"
  /\ LET key == Key(name, version, generate_content_hash(content))
     IN  /\ dbret' = LookupTrace(key, fault, get_cached_result(scan_results, key, fault))
         /\ scan_results' = IF fault THEN scan_results
                                      ELSE RowsAfterLookup(scan_results, key)
  /\ ret' = NoCall
  /\ prevret' = NoPrev
  /\ UNCHANGED <<now, sqlite_sequence, client, database, cache_hits,
                 cache_misses, pc, request, written, stored_for>>
  /\ UNCHANGED <<gemini_vars, scan_vars, pure_vars>>

\* a call of cleanup_old_entries(max_age_days); the result is the number of
\* rows the DELETE statement changed
DbCleanup(max_age_days, fault) ==
  /\ pc = "idle"
  /\ scan_results' = cleanup_old_entries(scan_results, now, max_age_days, fault)
  /\ dbret' = CleanupTrace(fault,
                 IF fault THEN 0 ELSE Cardinality(Expired(scan_results, now, max_age_days)),
                 max_age_days)
  /\ written' = IF fault THEN written ELSE {}
  /\ ret' = NoCall
  /\ prevret' = NoPrev
  /\ UNCHANGED <<now, sqlite_sequence, client, database, cache_hits, cache_misses,
                 pc, request, stored_for>>
  /\ UNCHANGED <<gemini_vars, scan_vars, pure_vars>>

\* the command "cache --clear" of main: RusqliteDatabase::new, then
\* cleanup_old_entries(0); an error of either is printed
CacheClear(open_ok, fault) ==
  /\ pc = "idle"
  /\ IF open_ok
     THEN /\ scan_results' = cleanup_old_entries(scan_results, now, ClearAgeDays, fault)
          /\ dbret' = [CleanupTrace(fault,
                         IF fault THEN 0
                         ELSE Cardinality(Expired(scan_results, now, ClearAgeDays)),
                         ClearAgeDays) EXCEPT !.op = "clear"]
          /\ written' = IF fault THEN written ELSE {}
     ELSE /\ dbret' = [CleanupTrace(TRUE, 0, ClearAgeDays) EXCEPT !.op = "clear"]
          /\ UNCHANGED <<scan_results, written>>
  /\ ret' = NoCall
  /\ prevret' = NoPrev
  /\ UNCHANGED <<now, sqlite_sequence, client, database, cache_hits, cache_misses,
                 pc, request, stored_for>>
  /\ UNCHANGED <<gemini_vars, scan_vars, pure_vars>>

\* the database API under its direct callers and the clock
NextDb ==
  \/ Tick
  \/ \E k \in DbKeyInputs, response \in Responses, fault \in BOOLEAN :
       DbStore(k[1], k[2], k[3], response, fault)
  \/ \E k \in DbKeyInputs, fault \in BOOLEAN : DbLookup(k[1], k[2], k[3], fault)
  \/ \E max_age_days \in 0..MaxAgeDays, fault \in BOOLEAN : DbCleanup(max_age_days, fault)
  \/ \E open_ok \in BOOLEAN, fault \in BOOLEAN : CacheClear(open_ok, fault)

SpecDb == Init /\ [][NextDb]_vars

\* one scan process: the construction of the cached client and its calls
NextClient ==
  \/ Tick
  \/ \E parent_exists \in BOOLEAN, mkdir_ok \in BOOLEAN, open_ok \in BOOLEAN :
       New(parent_exists, mkdir_ok, open_ok)
  \/ \E prompt \in Prompts, fault \in BOOLEAN : AnalyzeStart(prompt, fault)
  \/ \E response \in Responses, fault \in BOOLEAN : InnerReturn(TRUE, response, fault)
  \/ \E response \in Responses : InnerReturn(FALSE, response, FALSE)
  \/ Cancel

SpecClient == Init /\ [][NextClient]_vars

\* the scan command ends and the process exits: the client and its counters
\* are gone, the cache database stays on disk
Exit ==
  /\ client # "absent"
  /\ pc = "idle"
  /\ client' = "absent"
  /\ database' = "None"
  /\ cache_hits' = 0
  /\ cache_misses' = 0
  /\ request' = NoRequest
  /\ dbret' = NoDbCall
  /\ ret' = NoCall
  /\ prevret' = NoPrev
  /\ UNCHANGED <<now, scan_results, sqlite_sequence, pc, written, stored_for>>
  /\ UNCHANGED <<gemini_vars, scan_vars, pure_vars>>

\* the prompts of the units that every scan of the project analyzes
RerunPrompts ==
  { <<"Package: ", "serde", " v", "1.0", NL, "dep_a">>,
    <<"File:", " ", "main", ".rs", NL, "dep_b">> }

\* scan after scan over one cache database
NextRerun ==
  \/ \E parent_exists \in BOOLEAN, mkdir_ok \in BOOLEAN, open_ok \in BOOLEAN :
       New(parent_exists, mkdir_ok, open_ok)
  \/ \E prompt \in RerunPrompts, fault \in BOOLEAN : AnalyzeStart(prompt, fault)
  \/ \E response \in Responses, fault \in BOOLEAN : InnerReturn(TRUE, response, fault)
  \/ \E response \in Responses : InnerReturn(FALSE, response, FALSE)
  \/ Cancel
  \/ Exit

SpecRerun == Init /\ [][NextRerun]_vars

\* ------------------------------------------- llm_client.rs: GeminiClient
\* GeminiClient::with_rate_limit (GeminiClient::new passes 2 seconds)
WithRateLimit(min_interval) ==
  /\ gemini = "absent"
  /\ gemini' = "ready"
  /\ min_request_interval' = min_interval
  /\ last_request_time' = None
  /\ UNCHANGED <<instant, gemini_pc, attempt, last_error, waits, dispatch, answer, returned>>
  /\ UNCHANGED <<cache_vars, scan_vars, pure_vars>>

\* time passes while no code of the client runs: between two calls and while
\* the answer of a request is awaited
Elapse ==
  /\ gemini = "ready"
  /\ instant < MaxInstant
  /\ instant' = instant + 1
  /\ dispatch' = NoDispatch
  /\ answer' = NoAnswerYet
  /\ UNCHANGED <<gemini, min_request_interval, last_request_time, gemini_pc, attempt,
                 last_error, waits, returned>>
  /\ UNCHANGED <<cache_vars, scan_vars, pure_vars>>

\* mutant: the rate limiter never waits
SleepDurationNone(elapsed, interval) == 0

\* try_single_api_request: the time to sleep when elapsed seconds have passed
\* since the last request (0: no sleep)
SleepDuration(elapsed, interval) == IF elapsed < interval THEN interval - elapsed ELSE 0

\* attempt k of the retry loop up to the await of send(): the backoff sleep
\* (k >= 1), the rate-limit sleep, and the stamping of last_request_time. A
\* sleep lasts its duration plus what the timer oversleeps.
Dispatch(k, oversleep1, oversleep2) ==
  LET backoff == IF k > 0 THEN BackoffDelay(k) ELSE 0
      woke == IF k > 0 THEN instant + backoff + oversleep1 ELSE instant
      rate_wait == IF last_request_time = None THEN 0
                   ELSE SleepDuration(woke - last_request_time[1], min_request_interval)
      at == IF rate_wait > 0 THEN woke + rate_wait + oversleep2 ELSE woke
  IN  /\ at <= MaxInstant
      /\ instant' = at
      /\ last_request_time' = Some(at)
      /\ attempt' = k
      /\ waits' = IF k > 0 THEN Append(waits, backoff) ELSE <<>>
      /\ gemini_pc' = "inflight"
      /\ dispatch' = [made |-> TRUE, attempt |-> k, backoff |-> backoff, since |-> instant,
                      woke |-> woke, prev |-> last_request_time, rate_wait |-> rate_wait,
                      at |-> at]

\* GeminiClient::analyze_code: make_api_request_with_retry up to the first await of send()
AnalyzeCode(oversleep) ==
  /\ gemini = "ready"
  /\ gemini_pc = "idle"
  /\ Dispatch(0, 0, oversleep)
  /\ last_error' = None
  /\ answer' = NoAnswerYet
  /\ returned' = NotReturned
  /\ UNCHANGED <<gemini, min_request_interval>>
  /\ UNCHANGED <<cache_vars, scan_vars, pure_vars>>

\* last_error = Some(e)
LastError(previous, error) == Some(error)

\* the answer of the request in flight arrives: the rest of
\* try_single_api_request, then the retry loop up to its return or to the
\* await of the next request
Respond(outcome, oversleep1, oversleep2) ==
  /\ gemini_pc = "inflight"
  /\ \E result \in {try_single_api_request[outcome]} :
       /\ answer' = [seen |-> TRUE, attempt |-> attempt, outcome |-> outcome,
                     result |-> result]
       /\ IF result.ok
          THEN /\ returned' = [status |-> "Ok", result |-> result,
                               dispatches |-> attempt + 1]
               /\ gemini_pc' = "idle"
               /\ dispatch' = NoDispatch
               /\ UNCHANGED <<instant, last_request_time, attempt, last_error, waits>>
          ELSE /\ last_error' = LastError(last_error, result)
               /\ IF NoRetry(result) \/ attempt = MaxRetries
                  THEN /\ returned' = [status |-> "Err", result |-> last_error'[1],
                                       dispatches |-> attempt + 1]
                       /\ gemini_pc' = "idle"
                       /\ dispatch' = NoDispatch
                       /\ UNCHANGED <<instant, last_request_time, attempt, waits>>
                  ELSE /\ Dispatch(attempt + 1, oversleep1, oversleep2)
                       /\ UNCHANGED returned
  /\ UNCHANGED <<gemini, min_request_interval>>
  /\ UNCHANGED <<cache_vars, scan_vars, pure_vars>>

\* one Gemini client and the calls of one caller
NextGemini ==
  \/ \E min_interval \in 1..MaxInterval : WithRateLimit(min_interval)
  \/ Elapse
  \/ \E oversleep \in 0..MaxOversleep : AnalyzeCode(oversleep)
  \/ \E outcome \in Outcomes, oversleep1 \in 0..MaxOversleep, oversleep2 \in 0..MaxOversleep :
       Respond(outcome, oversleep1, oversleep2)

SpecGemini == Init /\ [][NextGemini]_vars

\* ------------------------------------- dependency_scanner.rs: one scan
\* the end of an iteration: the next loop, or the sort and the return
Continue(deep_left, light_left, results_so_far) ==
  /\ scan_pc' = Stage(deep_left, light_left)
  /\ IF Stage(deep_left, light_left) = "done"
     THEN /\ results' = sort_by(results_so_far)
          /\ scan_ret' = "Ok"
     ELSE /\ results' = results_so_far
          /\ scan_ret' = "none"

\* scan_dependencies up to its first unit: cargo metadata and the triage
ScanDependencies(metadata_ok, metadata_packages) ==
  /\ scan_pc = "idle"
  /\ IF ~metadata_ok
     THEN /\ scan_pc' = "done"
          /\ scan_ret' = "Err"
          /\ UNCHANGED <<packages, dependencies_to_analyze, low_priority_deps, results>>
     ELSE /\ packages' = metadata_packages
          /\ dependencies_to_analyze' =
               SelectSeq(metadata_packages,
                         LAMBDA package : ~package.workspace /\ Triage[package])
          /\ low_priority_deps' =
               SelectSeq(metadata_packages,
                         LAMBDA package : ~package.workspace /\ ~Triage[package])
          /\ Continue(Len(dependencies_to_analyze'), Len(low_priority_deps'), <<>>)
  /\ UNCHANGED <<deep_done, light_done, processed>>
  /\ UNCHANGED <<cache_vars, gemini_vars, pure_vars>>

Processed(package, kind, called, slept) ==
  [name |-> package.name, kind |-> kind, called |-> called, slept |-> slept]

\* one iteration of the first loop: analyze_dependency, push, sleep
DeepUnit(registry, llm) ==
  /\ scan_pc = "deep"
  /\ \E package \in {dependencies_to_analyze[deep_done + 1]} :
     \E similar \in Typosquatting[package] :
       /\ IF registry.kind = "bad_json"
          THEN /\ scan_pc' = "done"
               /\ scan_ret' = "Err"
               /\ processed' = Append(processed, Processed(package, "deep", FALSE, 0))
               /\ UNCHANGED <<deep_done, results>>
          ELSE /\ deep_done' = deep_done + 1
               /\ processed' =
                    Append(processed,
                           Processed(package, "deep",
                                     package.name \notin trusted_packages,
                                     IF deep_done < Len(dependencies_to_analyze) - 1
                                     THEN UnitDelay ELSE 0))
               /\ Continue(Len(dependencies_to_analyze) - deep_done',
                           Len(low_priority_deps) - light_done,
                           Append(results,
                                  analyze_dependency(
                                    package,
                                    analyze_package_metadata(package, similar, registry),
                                    llm)))
  /\ UNCHANGED <<packages, dependencies_to_analyze, low_priority_deps, light_done>>
  /\ UNCHANGED <<cache_vars, gemini_vars, pure_vars>>

\* one iteration of the second loop: analyze_dependency_light, push
LightUnit(registry) ==
  /\ scan_pc = "light"
  /\ \E package \in {low_priority_deps[light_done + 1]} :
     \E similar \in Typosquatting[package] :
       /\ IF registry.kind = "bad_json"
          THEN /\ scan_pc' = "done"
               /\ scan_ret' = "Err"
               /\ processed' = Append(processed, Processed(package, "light", FALSE, 0))
               /\ UNCHANGED <<light_done, results>>
          ELSE /\ light_done' = light_done + 1
               /\ processed' =
                    Append(processed, Processed(package, "light", FALSE, 0))
               /\ Continue(Len(dependencies_to_analyze) - deep_done,
                           Len(low_priority_deps) - light_done',
                           Append(results,
                                  analyze_dependency_light(
                                    package,
                                    analyze_package_metadata(package, similar, registry))))
  /\ UNCHANGED <<packages, dependencies_to_analyze, low_priority_deps, deep_done>>
  /\ UNCHANGED <<cache_vars, gemini_vars, pure_vars>>

\* one scan of one project
NextScan ==
  \/ \E metadata_ok \in BOOLEAN, metadata_packages \in PackageLists :
       ScanDependencies(metadata_ok, metadata_packages)
  \/ \E registry \in RegistryAnswers, llm \in LlmAnswers : DeepUnit(registry, llm)
  \/ \E registry \in RegistryAnswers : LightUnit(registry)

SpecScan == Init /\ [][NextScan]_vars

\* one scan of a project whose dependencies are serde, sede and backdoor-utils
NextEndToEnd ==
  \/ \E metadata_packages \in EndToEndLists : ScanDependencies(TRUE, metadata_packages)
  \/ \E registry \in RegistryAnswers, llm \in LlmAnswers : DeepUnit(registry, llm)
  \/ \E registry \in RegistryAnswers : LightUnit(registry)

SpecEndToEnd == Init /\ [][NextEndToEnd]_vars

\* JSON documents extract_text_from_response is called with, besides Payloads
ExtractPayloads ==
  Payloads
  \cup { JStr("No significant issues were found."),
         JStr("short analysis"),
         JStr("fine"),
         JObj(<<"data">>, <<JStr("a long answer without any marker")>>),
         JObj(<<"data">>, <<JStr("security")>>),
         JObj(<<"data">>, <<JObj(<<"note">>, <<JStr("security review: nothing found")>>)>>),
         JObj(<<"result", "text">>, <<JStr("result of the review"), JStr("text of the review")>>),
         JObj(<<"text">>, <<JStr("too short")>>),
         JObj(<<"note", "output">>,
              <<JStr("security analysis: nothing found"), JStr("plain long output text")>>),
         JArr(<<JArr(<<JArr(<<JArr(<<JArr(<<JArr(<<JStr("array form")>>)>>)>>), JNull>>)>>),
                JNull>>),
         JObj(<<"candidates", "message">>,
              <<JArr(<<JObj(<<"finishReason">>, <<JStr("MAX_TOKENS")>>)>>),
                JStr("ran out of tokens")>>) }

\* texts parse_analysis_response is called with
AnalysisTexts ==
  { "", CleanText, RiskyText, "no markers at all",
    "ANALYSIS:\nPATTERNS:\n",
    "ANALYSIS: a\nPATTERNS:\nLine: 3, Severity: High, Description: d, Code: c",
    "ANALYSIS: a\nPATTERNS:\n- Line: 3, Severity: High, Description: reads env, posts it, Code: c",
    "ANALYSIS: a\nPATTERNS:\n- Line: 3, Severity: Critical, Description: d, Code: c\n- Line: 4, Severity: Medium, Description: d, Code: c",
    "ANALYSIS: a\nPATTERNS:\n- Line: 99999999999999999999, Severity: Low, Description: d, Code: c",
    "ANALYSIS: a\nPATTERNS:\n- Line: -3, Severity: Low, Description: d, Code: c\nnote",
    "ANALYSIS: a\nPATTERNS:\nsee - Line: 5, Severity: Low, Description: d, Code: c, d",
    "ANALYSIS: a\nPATTERNS:\n  - Line: 007, Severity: Medium, Description:  d , Code:  c  \n\n- Line: 8, Severity: High, Description: e, Code: f",
    "PATTERNS:\n- Line: 3, Severity: High, Description: d, Code: c",
    " \n\t ", "ANALYSIS: \n " }

\* ------------------- llm_client.rs: the prompt of try_single_api_request
\* a text is a list of runs: count characters, each of width bytes in UTF-8
Run(ch, width, count) == [ch |-> ch, width |-> width, count |-> count]

\* str::len: the length in bytes
RECURSIVE ByteLen(_)
ByteLen(text) ==
  IF text = <<>> THEN 0 ELSE Head(text).width * Head(text).count + ByteLen(Tail(text))

\* str::is_char_boundary
RECURSIVE is_char_boundary(_, _)
is_char_boundary(text, index) ==
  IF index = 0 THEN TRUE
  ELSE IF text = <<>> THEN FALSE
  ELSE IF index <= Head(text).width * Head(text).count THEN index % Head(text).width = 0
  ELSE is_char_boundary(Tail(text), index - Head(text).width * Head(text).count)

\* &text[..end] for a char boundary end
RECURSIVE SliceTo(_, _)
SliceTo(text, end) ==
  IF end = 0 THEN <<>>
  ELSE IF end >= Head(text).width * Head(text).count
       THEN <<Head(text)>> \o SliceTo(Tail(text), end - Head(text).width * Head(text).count)
  ELSE <<Run(Head(text).ch, Head(text).width, end \div Head(text).width)>>

\* &text[start..] for a char boundary start
RECURSIVE SliceFrom(_, _)
SliceFrom(text, start) ==
  IF start = 0 THEN text
  ELSE IF start >= Head(text).width * Head(text).count
       THEN SliceFrom(Tail(text), start - Head(text).width * Head(text).count)
  ELSE <<Run(Head(text).ch, Head(text).width, Head(text).count - start \div Head(text).width)>>
       \o Tail(text)

ConciseThreshold == 12000   \* code_content.len() > 12000
TruncateThreshold == 15000  \* code_content.len() > 15000
SliceBytes == 7500          \* &code_content[..7500], [len - 7500..]

ElisionMarker == "\n\n// ... (middle section truncated for analysis) ...\n\n"

\* the instruction sentence main.rs puts before the text of a file
Instruction ==
  "Analyze the following Rust code for malicious behavior, backdoors, or unsafe patterns. Provide a summary of findings and specific flagged lines with severity (High, Medium, Low) and a brief description:\n\n"

FileHeader == "File: src/lib.rs\n"

\* request.prompt: the text of a file after the header line and the
\* instruction sentence as main.rs builds it, or the bare text
Request(with_file_header, content) ==
  [prompt |-> (IF with_file_header
               THEN <<Run(FileHeader, Len(FileHeader), 1), Run(Instruction, Len(Instruction), 1)>>
               ELSE <<>>) \o content]

\* code_content: the instruction sentence is replaced by "", then what
\* follows the first line feed is taken when the text starts with "File: "
Replaced(prompt) == SelectSeq(prompt, LAMBDA run : run.ch # Instruction)

code_content(llm_request) ==
  IF /\ Replaced(llm_request.prompt) # <<>>
     /\ starts_with(Head(Replaced(llm_request.prompt)).ch, "File: ")
  THEN Tail(Replaced(llm_request.prompt))
  ELSE Replaced(llm_request.prompt)

\* enhanced_prompt: the template and what is formatted into it; a slice at
\* an index that is no char boundary panics
Panic == [panic |-> TRUE, template |-> "", chars |-> 0, analyzed |-> "", code |-> <<>>]
Prompt(template, chars, analyzed, code) ==
  [panic |-> FALSE, template |-> template, chars |-> chars, analyzed |-> analyzed, code |-> code]

truncated_code(content) ==
  IF ByteLen(content) > TruncateThreshold
  THEN IF /\ is_char_boundary(content, SliceBytes)
          /\ is_char_boundary(content, ByteLen(content) - SliceBytes)
       THEN Some(SliceTo(content, SliceBytes)
                 \o <<Run(ElisionMarker, Len(ElisionMarker), 1)>>
                 \o SliceFrom(content, ByteLen(content) - SliceBytes))
       ELSE None
  ELSE Some(content)

enhanced_prompt(llm_request) ==
  IF ByteLen(code_content(llm_request)) > ConciseThreshold
  THEN IF truncated_code(code_content(llm_request)) = None THEN Panic
       ELSE Prompt("concise", ByteLen(code_content(llm_request)),
                   IF ByteLen(code_content(llm_request)) > TruncateThreshold
                   THEN "truncated" ELSE "full",
                   truncated_code(code_content(llm_request))[1])
  ELSE Prompt("regular", 0, "", code_content(llm_request))

\* the contents of files
Contents ==
  { <<>>,
    <<Run("a", 1, 100)>>,
    <<Run("a", 1, 12000)>>,
    <<Run("a", 1, 12001)>>,
    <<Run("a", 1, 15000)>>,
    <<Run("a", 1, 15001)>>,
    <<Run("a", 1, 9000), Run("b", 1, 11000)>>,
    <<Run("e", 2, 5000)>>,
    <<Run("e", 2, 6500)>>,
    <<Run("e", 2, 8000)>>,
    <<Run("a", 1, 7499), Run("e", 2, 1), Run("a", 1, 8000)>>,
    <<Run("a", 1, 9000), Run("e", 2, 1), Run("a", 1, 7499)>>,
    <<Run("a", 1, 7500), Run("e", 3, 1), Run("b", 1, 7500)>> }

\* ------------------------------------------------ calls of pure functions
\* each behaviour makes one call, with any of the arguments below
\* MetadataFlagType
MetadataFlagTypes ==
  {"Typosquatting", "RecentPublication", "LowDownloads", "SuspiciousAuthor",
   "UnusualDependencies", "NetworkingCapabilities", "FileSystemAccess", "ProcessExecution",
   "CryptoOperations"}

\* FlaggedPattern.severity is a String: the three of the prompt and another
PatternSeverities == {"High", "Medium", "Low", "Critical"}

FlagLists == SeqsUpTo({ Flag(flag_type, "") : flag_type \in MetadataFlagTypes }, MaxFlags)

PatternLists ==
  SeqsUpTo({ [line |-> 1, severity |-> severity, description |-> "d", code_snippet |-> "c"] :
               severity \in PatternSeverities }, MaxPatterns)

CalculateRiskScore(metadata_flags, patterns) ==
  /\ pure_fn' = "calculate_risk_score"
  /\ pure_in' = PureIn(metadata_flags, patterns, JNull, "")
  /\ pure_out' = PureOut(calculate_risk_score(metadata_flags, patterns), None, None)
  /\ UNCHANGED <<cache_vars, gemini_vars, scan_vars>>

ExtractTextFromResponse(json_value) ==
  /\ pure_fn' = "extract_text_from_response"
  /\ pure_in' = PureIn(<<>>, <<>>, json_value, "")
  /\ pure_out' = PureOut("", Some(extract_text_from_response(json_value)), None)
  /\ UNCHANGED <<cache_vars, gemini_vars, scan_vars>>

ParseAnalysisResponse(response) ==
  /\ pure_fn' = "parse_analysis_response"
  /\ pure_in' = PureIn(<<>>, <<>>, JNull, response)
  /\ pure_out' = PureOut("", None, Some(parse_analysis_response(response)))
  /\ UNCHANGED <<cache_vars, gemini_vars, scan_vars>>

\* the first attempt of make_api_request_with_retry builds the prompt
TrySingleApiRequest(with_file_header, content) ==
  /\ pure_fn' = "try_single_api_request"
  /\ pure_in' = [content |-> content, request |-> Request(with_file_header, content)]
  /\ pure_out' = [prompts |-> <<enhanced_prompt(Request(with_file_header, content))>>]
  /\ UNCHANGED <<cache_vars, gemini_vars, scan_vars>>

\* a later attempt builds it again from the same request
RetrySingleApiRequest ==
  /\ pure_fn = "try_single_api_request"
  /\ Len(pure_out.prompts) <= MaxRetries
  /\ ~pure_out.prompts[Len(pure_out.prompts)].panic
  /\ pure_out' = [prompts |-> Append(pure_out.prompts, enhanced_prompt(pure_in.request))]
  /\ UNCHANGED <<pure_fn, pure_in>>
  /\ UNCHANGED <<cache_vars, gemini_vars, scan_vars>>

\* the characters of the names compared, and the names
Alphabet == {"a", "b"}

RECURSIVE Words(_)
Words(n) ==
  IF n = 0 THEN {""}
  ELSE Words(n - 1) \cup { w \o c : w \in { v \in Words(n - 1) : Len(v) = n - 1 }, c \in Alphabet }

LevenshteinDistance(s1, s2) ==
  /\ pure_fn' = "levenshtein_distance"
  /\ pure_in' = [s1 |-> s1, s2 |-> s2]
  /\ pure_out' = [distance |-> levenshtein_distance(s1, s2)]
  /\ UNCHANGED <<cache_vars, gemini_vars, scan_vars>>

\* names of declared dependencies: of each capability category and of none
DependencyNames == {"reqwest", "hyper", "walkdir", "tokio-process", "async-process", "serde"}

AnalyzeDependencyTree(package) ==
  /\ pure_fn' = "analyze_dependency_tree"
  /\ pure_in' = [package |-> package]
  /\ pure_out' = [flags |-> analyze_dependency_tree(package)]
  /\ UNCHANGED <<cache_vars, gemini_vars, scan_vars>>

\* metadata["crate"]["created_at"]: absent, a string that is no RFC 3339
\* timestamp, or a timestamp that lies days whole days, and part of a day
\* more when part is set, before now (after now when future is set)
NoCreatedAt == [kind |-> "absent", future |-> FALSE, days |-> 0, part |-> FALSE]
NotRfc3339 == [kind |-> "not_rfc3339", future |-> FALSE, days |-> 0, part |-> FALSE]
CreatedAt(future, days, part) ==
  [kind |-> "rfc3339", future |-> future, days |-> days, part |-> part]

CreatedAts ==
  {NoCreatedAt, NotRfc3339}
  \cup { CreatedAt(future, days, part) :
           future \in BOOLEAN, days \in 0..MaxDaysOld, part \in BOOLEAN }

\* now.signed_duration_since(created_date).num_days(): whole days, the part
\* of a day cut off towards zero
num_days(created_at) == IF created_at.future THEN -created_at.days ELSE created_at.days

\* metadata["crate"]["downloads"]: absent, or a number
DownloadCounts == {JNull, JNum(-5), JNum(0), JNum(999), JNum(1000), JNum(250000)}

\* Value::as_u64
as_u64(json_value) ==
  IF json_value.t = "num" /\ json_value.n >= 0 THEN Some(json_value.n) ELSE None

\* the document of a successful lookup, as is_recently_published and
\* has_low_downloads read it
Document(created_at, downloads) ==
  CrateMetadata(IF created_at.kind = "rfc3339" THEN Some(num_days(created_at)) ELSE None,
                as_u64(downloads))

\* the registry part of analyze_package_metadata for a document
RegistryDocument(created_at, downloads) ==
  /\ pure_fn' = "analyze_package_metadata"
  /\ pure_in' = [created_at |-> created_at, downloads |-> downloads]
  /\ pure_out' = [flags |-> RegistryFlags(Document(created_at, downloads))]
  /\ UNCHANGED <<cache_vars, gemini_vars, scan_vars>>

\* no call was made yet
NotCalled == pure_fn = "none"

NextPure ==
  \/ /\ NotCalled
     /\ \E metadata_flags \in FlagLists, patterns \in PatternLists :
          CalculateRiskScore(metadata_flags, patterns)
  \/ /\ NotCalled
     /\ \E json_value \in ExtractPayloads : ExtractTextFromResponse(json_value)
  \/ /\ NotCalled
     /\ \E response \in AnalysisTexts : ParseAnalysisResponse(response)
  \/ /\ NotCalled
     /\ \E with_file_header \in BOOLEAN, content \in Contents :
          TrySingleApiRequest(with_file_header, content)
  \/ RetrySingleApiRequest
  \/ /\ NotCalled
     /\ \E s1 \in Words(MaxWordLen), s2 \in Words(MaxWordLen) : LevenshteinDistance(s1, s2)
  \/ /\ NotCalled
     /\ \E dependencies \in SeqsUpTo(DependencyNames, MaxDeps) :
          AnalyzeDependencyTree(Package("unit", FALSE, dependencies))
  \/ /\ NotCalled
     /\ \E created_at \in CreatedAts, downloads \in DownloadCounts :
          RegistryDocument(created_at, downloads)

SpecPure == Init /\ [][NextPure]_vars


\* ------------------------------------------------------------------ claims

\* C1: cache round trip. After store(name, version, fingerprint, R) has
\* succeeded and no cleanup has run since, a lookup of the same key that
\* completes returns Some result whose analysis text and flagged patterns
\* are those of R (never None, never another payload).
C1_RoundTrip ==
  (dbret.op = "lookup" /\ ~dbret.fault) =>
    \A w \in written :
      w.key = dbret.key =>
        /\ dbret.res = "Some"
        /\ dbret.analysis = w.analysis
        /\ dbret.flagged_patterns = w.flagged_patterns

C1_Witness ==
  /\ dbret.op = "lookup"
  /\ dbret.res = "Some"
  /\ dbret.flagged_patterns = <<Pat1, Pat2>>
  /\ \E w \in written : w.key = dbret.key

\* C2: at most one row per key triple. Every state of the table has at most
\* one row per (name, version, fingerprint); after a store that succeeded the
\* single row of its key carries the stored payload and the time of the store,
\* and a lookup of the key returns that payload.
C2_OneRowPerKey ==
  /\ \A r1 \in scan_results, r2 \in scan_results : RowKey(r1) = RowKey(r2) => r1 = r2
  /\ (dbret.op = "store" /\ ~dbret.fault) =>
       /\ Cardinality(Matching(scan_results, dbret.key)) = 1
       /\ \A r \in Matching(scan_results, dbret.key) :
            /\ r.id = dbret.count
            /\ r.analysis = dbret.analysis
            /\ r.scan_date = to_rfc3339(now)
       /\ get_cached_result(scan_results, dbret.key, FALSE).tag = "Some"
       /\ get_cached_result(scan_results, dbret.key, FALSE).analysis = dbret.analysis
       /\ get_cached_result(scan_results, dbret.key, FALSE).flagged_patterns
            = dbret.flagged_patterns

C2_Witness ==
  /\ dbret.op = "store"
  /\ ~dbret.fault
  /\ dbret.replaced # {}
  /\ dbret.analysis \notin dbret.replaced
  /\ Cardinality(Matching(scan_results, dbret.key)) = 1

RowHolds(call) ==
  \E r \in scan_results :
    /\ RowKey(r) = call.key
    /\ r.analysis = call.analysis
    /\ from_str(r.flagged_patterns_json).ok
    /\ from_str(r.flagged_patterns_json).value = call.flagged_patterns

\* what C4 says of a call apart from the presence of the stored row
CacheInFront(call) ==
  /\ call.lookups = 1
  /\ call.key = LookedUpKey(call.prompt)
  /\ call.hit => (call.inner_calls = 0 /\ call.stores = 0 /\ RowHolds(call))
  /\ ~call.hit => call.inner_calls = 1
  /\ (~call.hit /\ call.inner_ok) => (call.stores = 1 /\ call.store_key = call.key)
  /\ (~call.hit /\ ~call.inner_ok) => call.stores = 0

\* C4, as claimed: on a hit the inner client is not invoked and the cached
\* result is returned; on a miss the inner client is invoked exactly once and,
\* if it returns Ok, its result is stored under the looked-up key when
\* analyze_code returns.
C4_AsClaimed ==
  (ret.status # "none" /\ database = "Some") =>
    /\ CacheInFront(ret)
    /\ (~ret.hit /\ ret.inner_ok) => RowHolds(ret)

\* C4, amended: on a miss with an Ok result, store is called once with the
\* looked-up key and that result before analyze_code returns, and the row is in
\* the cache at the return unless that store failed.
C4_CacheInFront ==
  (ret.status # "none" /\ database = "Some") =>
    /\ CacheInFront(ret)
    /\ (~ret.hit /\ ret.inner_ok /\ ~ret.store_fault) => RowHolds(ret)

C4_Witness ==
  /\ database = "Some"
  /\ ret.status = "Ok" /\ ~ret.hit /\ ret.inner_calls = 1
  /\ ret.stores = 1 /\ ~ret.store_fault /\ ret.store_key = ret.key
  /\ ret.flagged_patterns = <<Pat1, Pat2>>
  /\ RowHolds(ret)

\* C5: when the backing store cannot be opened at startup, the construction
\* of the cached client succeeds, and every analyze_code of the run goes to the
\* inner client with no lookup and no store.
C5_NoOpMode ==
  (client # "absent" /\ database = "None") =>
    /\ client = "ready"
    /\ ret.status # "none" =>
         (ret.inner_calls = 1 /\ ret.lookups = 0 /\ ret.stores = 0 /\ ~ret.hit)

\* C6: a failed lookup is treated as a miss and the inner client is called;
\* whenever the inner client returned Ok, analyze_code returns Ok, also when
\* the store failed; analyze_code returns Err only when the inner client did.
C6_CacheNeverFails ==
  ret.status # "none" =>
    /\ ret.lookup_fault => (~ret.hit /\ ret.inner_calls = 1)
    /\ ret.inner_ok => ret.status = "Ok"
    /\ ret.status = "Err" => (ret.inner_calls = 1 /\ ~ret.inner_ok)

C6_Witness ==
  /\ ret.status = "Ok"
  /\ ret.lookup_fault
  /\ ret.store_fault
  /\ scan_results # {}

\* C7: lookup is a pure read. A step that makes a lookup leaves the rows of
\* the table (their payloads and timestamps included) and the id sequence as
\* they were, on a hit and on a miss, and a miss returns None.
C7_LookupPureRead ==
  [][dbret'.op = "lookup" =>
       /\ scan_results' = scan_results
       /\ sqlite_sequence' = sqlite_sequence
       /\ (Matching(scan_results, dbret'.key) = {} /\ ~dbret'.fault) => dbret'.res = "None"
    ]_vars

C7_Witness ==
  /\ dbret.op = "lookup"
  /\ dbret.res = "Some"
  /\ Cardinality(Matching(scan_results, dbret.key)) = 1

\* the time a row was stored at
StoredAt(row) == parse_from_rfc3339(row.scan_date).value

\* the row was stored more than days days before time t
OlderThanDays(row, t, days) == StoredAt(row) + days * TicksPerDay < t

\* C8: cleanup(maxAgeDays) removes exactly the rows stored more than
\* maxAgeDays days ago, leaves the others as they are and returns the number
\* of rows removed.
C8_CleanupExact ==
  [][(dbret'.op = "cleanup" /\ ~dbret'.fault) =>
       /\ scan_results' = { r \in scan_results :
                              ~OlderThanDays(r, now, dbret'.max_age_days) }
       /\ dbret'.count = Cardinality(scan_results) - Cardinality(scan_results')
    ]_vars

\* C9: after the cache clear command has completed, the cache holds no row.
C9_ClearRemovesAll ==
  (dbret.op = "clear" /\ ~dbret.fault) => scan_results = {}

\* C10: a cache hit returns only the result of a row that was stored for the
\* same name, the same version and the identical content; a prompt whose
\* content differs from the stored one is never answered from that row.
C10_HitOnlySameContent ==
  ret.hit =>
    /\ ret.hit_source = ret.prompt
    /\ \E r \in scan_results :
         /\ RowKey(r) = ret.key
         /\ stored_for[r.id] = ret.prompt
         /\ r.analysis = ret.analysis

C10_Witness ==
  /\ ret.status # "none" /\ ~ret.hit
  /\ ret.lookups = 1 /\ ~ret.lookup_fault
  /\ \E r \in scan_results :
       /\ r.package_name = ret.key.package_name
       /\ r.package_version = ret.key.package_version
       /\ r.content_hash # ret.key.content_hash

\* ---------------------------------------------------------------- C11
\* C11: one analyze call dispatches at most 3 requests (attempts 0, 1, 2);
\* attempt k >= 1 is preceded by a backoff wait of min(2^k, 60) seconds, so the
\* wait doubles with each attempt and never exceeds 60 seconds.
C11_RetrySchedule ==
  /\ attempt \in 0..2
  /\ Len(waits) = attempt
  /\ \A k \in 1..Len(waits) :
       /\ waits[k] = Min({2^k, 60})
       /\ waits[k] <= 60
       /\ k > 1 => waits[k] = 2 * waits[k - 1]
  /\ dispatch.made /\ dispatch.attempt >= 1 =>
       /\ dispatch.backoff = waits[dispatch.attempt]
       /\ dispatch.woke - dispatch.since >= dispatch.backoff
  /\ dispatch.made /\ dispatch.attempt = 0 => dispatch.backoff = 0
  /\ returned.status # "none" => returned.dispatches \in 1..3

\* the third request of a call is dispatched after waits of 2 and 4 seconds
C11_Witness ==
  /\ gemini_pc = "inflight"
  /\ dispatch.made
  /\ dispatch.attempt = 2
  /\ waits = <<2, 4>>

\* ---------------------------------------------------------------- C12
\* the answers that report an exhausted quota (429 Too Many Requests) or an
\* invalid request (400 Bad Request)
NonTransient(outcome) == outcome.sent /\ outcome.status \in {400, 429}

\* C12: when an attempt fails with a quota-exhaustion or invalid-request
\* error, analyze returns that error at once: no further request is
\* dispatched and no backoff wait happens, on whichever attempt it occurs.
C12_NonTransientShortCircuit ==
  answer.seen /\ NonTransient(answer.outcome) =>
    /\ ~answer.result.ok
    /\ ~dispatch.made
    /\ gemini_pc = "idle"
    /\ returned.status = "Err"
    /\ returned.result = answer.result
    /\ returned.dispatches = answer.attempt + 1
    /\ Len(waits) = answer.attempt

\* ---------------------------------------------------------------- C13
\* the failures of an attempt the claim calls transient: no answer (network
\* failure or timeout), a server 5xx answer, a body that is not valid JSON
Transient(seen) ==
  \/ ~seen.outcome.sent
  \/ seen.outcome.status \in 500..599
  \/ seen.result.variant = "JsonError"

\* C13: an attempt that fails with a transient error after fewer than 3
\* attempts is followed by another attempt; analyze returns Ok at the first
\* successful attempt with no later dispatch, and returns Err only after all
\* 3 attempts failed, the error being the one of the last attempt.
C13_TransientRetried ==
  /\ answer.seen /\ ~answer.result.ok /\ Transient(answer) /\ answer.attempt < 2 =>
       /\ gemini_pc = "inflight"
       /\ dispatch.made
       /\ dispatch.attempt = answer.attempt + 1
       /\ returned.status = "none"
  /\ answer.seen /\ answer.result.ok =>
       /\ gemini_pc = "idle"
       /\ ~dispatch.made
       /\ returned.status = "Ok"
       /\ returned.result = answer.result
  /\ answer.seen /\ ~answer.result.ok /\ Transient(answer) /\ returned.status = "Err" =>
       /\ returned.dispatches = 3
       /\ returned.result = answer.result

\* ---------------------------------------------------------------- C14
\* C14: on one client, any two consecutive dispatched requests, retry
\* attempts included, are at least min_request_interval apart; a request
\* that comes too early is suspended for the rest of the interval, and
\* last_request_time is set at dispatch.
C14_RateLimit ==
  /\ last_request_time # None => last_request_time[1] <= instant
  /\ dispatch.made =>
       /\ last_request_time = Some(dispatch.at)
       /\ instant = dispatch.at
       /\ dispatch.prev # None =>
            /\ dispatch.at - dispatch.prev[1] >= min_request_interval
            /\ dispatch.woke - dispatch.prev[1] < min_request_interval =>
                 /\ dispatch.rate_wait = min_request_interval - (dispatch.woke - dispatch.prev[1])
                 /\ dispatch.at >= dispatch.woke + dispatch.rate_wait
            /\ dispatch.woke - dispatch.prev[1] >= min_request_interval =>
                 /\ dispatch.rate_wait = 0
                 /\ dispatch.at = dispatch.woke

\* a second call issued with no time elapsed since the dispatch of the first
\* is held back for the whole interval
C14_Witness ==
  /\ dispatch.made
  /\ dispatch.attempt = 0
  /\ dispatch.prev # None
  /\ dispatch.since = dispatch.prev[1]
  /\ dispatch.rate_wait = min_request_interval
  /\ dispatch.at >= dispatch.since + min_request_interval

\* a retry whose backoff is shorter than the interval is held back as well
C14_WitnessRetry ==
  /\ dispatch.made
  /\ dispatch.attempt = 1
  /\ dispatch.rate_wait > 0

\* ---------------------------------------------------------------- C15
\* the payload of the answer the last step processed, once decoded
SeenPayload == answer.result.json[1]

\* what extract_text_from_response returned for it
SeenExtracted == answer.result.extracted[1]

Extracting == answer.seen /\ answer.result.json # None /\ answer.result.extracted # None

\* a payload with no explicit error object
NoErrorObject(v) == get(v, "error") = None \/ get(v, "error")[1].t # "obj"

NoErrorMember(v) ==
  v.t = "obj" /\ (get(v, "error") = None \/ get(v, "error")[1].t = "null")

\* a JSON object none of whose members is one the methods look at
KnownFields ==
  {"candidates", "error", "text", "content", "message", "response", "analysis",
   "output", "result"}

MissingEveryKnownField(v) ==
  /\ v.t = "obj"
  /\ \A i \in 1..Len(v.keys) : v.keys[i] \notin KnownFields /\ v.vals[i].t \in {"null", "num"}

C16_ErrorObjectIsErr ==
  Extracting /\ ~NoErrorObject(SeenPayload) =>
    /\ ~SeenExtracted.ok
    /\ ~answer.result.ok

\* ---------------------------------------------------------------- C17
\* a success answer whose body is not JSON, cannot be parsed, or is JSON
\* missing every known field
MalformedAnswer ==
  /\ answer.seen
  /\ answer.outcome.sent
  /\ is_success(answer.outcome.status)
  /\ answer.result.json = None \/ MissingEveryKnownField(SeenPayload)

\* C17: a malformed response is downgraded, not propagated: a call that ends
\* on a success status with an unparseable, non-JSON or structurally empty
\* body returns Ok with a synthetic placeholder analysis.
C17_MalformedDowngraded ==
  MalformedAnswer /\ gemini_pc = "idle" =>
    /\ answer.result.ok
    /\ returned.status = "Ok"
    /\ returned.result.analysis # ""

\* ---------------------------------------------------------------- C18
\* the edit distance of every package name to every popular name
EditDistance ==
  [package \in Packages |->
     [popular_name \in popular_packages |-> levenshtein_distance(package.name, popular_name)]]

\* FORCE-DEEP as the claim states it
ForceDeep(package) ==
  /\ package.name \notin trusted_packages
  /\ \/ package.name \in known_malicious
     \/ \E popular_name \in popular_packages : EditDistance[package][popular_name] \in 1..2
     \/ \E pattern \in suspicious_patterns : contains(package.name, pattern)

\* the packages of the scan that are not members of the workspace
Units == SelectSeq(packages, LAMBDA package : ~package.workspace)

\* C18: a unit on the trusted list is SKIP-DEEP whatever else holds of its
\* name; any other unit is FORCE-DEEP exactly when its name is on the
\* known-malicious list, or at edit distance 1 or 2 from a popular name, or
\* contains a suspicious substring; all remaining units are SKIP-DEEP.
C18_Triage ==
  /\ dependencies_to_analyze = SelectSeq(Units, ForceDeep)
  /\ low_priority_deps = SelectSeq(Units, LAMBDA package : ~ForceDeep(package))
  /\ \A k \in 1..Len(Units) :
       Units[k].name \in trusted_packages => Units[k] \in Range(low_priority_deps)

\* a trusted unit is skipped and a unit with a suspicious substring is not
C18_Witness ==
  /\ scan_pc = "deep"
  /\ \E k \in 1..Len(low_priority_deps) : low_priority_deps[k].name = "serde"
  /\ \E k \in 1..Len(dependencies_to_analyze) :
       dependencies_to_analyze[k].name = "backdoor-utils"

\* ---------------------------------------------------------------- C19
\* the popular names at distance 1 or 2 of the name of a result
NearPopular(result) ==
  { popular_name \in popular_packages :
      \E package \in Packages :
        /\ package.name = result.package_name
        /\ EditDistance[package][popular_name] >= 1
        /\ EditDistance[package][popular_name] <= 2 }

TyposquattingFlags(result) ==
  SelectSeq(result.metadata_flags, LAMBDA flag : flag.flag_type = "Typosquatting")

\* C19: check_typosquatting reports a match if and only if some popular name
\* p has 1 <= distance(name, p) <= 2, and the name it returns is such a p; a
\* name identical to a popular name, or 3 or more edits from all of them, is
\* never flagged.
C19_TyposquatBoundaries ==
  \A k \in 1..Len(results) :
    /\ TyposquattingFlags(results[k]) # <<>> <=> NearPopular(results[k]) # {}
    /\ \A f \in 1..Len(TyposquattingFlags(results[k])) :
         TyposquattingFlags(results[k])[f].similar \in NearPopular(results[k])
    /\ Len(TyposquattingFlags(results[k])) <= 1

\* "sede" is flagged as similar to "serde"; "thiser", three edits from
\* "thiserror", is not
C19_Witness ==
  /\ \E k \in 1..Len(results) :
       /\ results[k].package_name = "sede"
       /\ TyposquattingFlags(results[k]) = <<Flag("Typosquatting", "serde")>>
  /\ \E k \in 1..Len(results) :
       /\ results[k].package_name = "thiser"
       /\ TyposquattingFlags(results[k]) = <<>>

\* ---------------------------------------------------------------- C20
\* the order the claim prescribes: the FORCE-DEEP units in enumeration order,
\* then the SKIP-DEEP units in enumeration order
PrescribedOrder ==
  [k \in 1..Len(SelectSeq(Units, ForceDeep)) |->
     [name |-> SelectSeq(Units, ForceDeep)[k].name, kind |-> "deep"]]
  \o [k \in 1..Len(SelectSeq(Units, LAMBDA package : ~ForceDeep(package))) |->
        [name |-> SelectSeq(Units, LAMBDA package : ~ForceDeep(package))[k].name,
         kind |-> "light"]]

\* C20: in one scan every FORCE-DEEP unit is processed before any SKIP-DEEP
\* unit, and within each group the units are processed in their original
\* enumeration order.
C20_ProcessingOrder ==
  /\ Len(processed) <= Len(PrescribedOrder)
  /\ \A k \in 1..Len(processed) :
       /\ processed[k].name = PrescribedOrder[k].name
       /\ processed[k].kind = PrescribedOrder[k].kind
  /\ scan_ret = "Ok" => Len(processed) = Len(PrescribedOrder)

\* a SKIP-DEEP unit enumerated first is processed after the FORCE-DEEP unit
C20_Witness ==
  /\ scan_ret = "Ok"
  /\ Len(packages) >= 2
  /\ ~ForceDeep(packages[1]) /\ ~packages[1].workspace
  /\ ForceDeep(packages[2]) /\ ~packages[2].workspace
  /\ processed[1].name = packages[2].name
  /\ processed[2].name = packages[1].name

\* ---------------------------------------------------------------- C21
\* the call of calculate_risk_score the last step made
Scoring == pure_fn = "calculate_risk_score"

\* the summed score of the flags and the patterns of the call
SummedScore ==
  SumOver(FlagWeight, pure_in.metadata_flags) + SumOver(PatternWeight, pure_in.patterns)

\* the rearrangements of a list
Rearrangements(seq) ==
  { [i \in 1..Len(seq) |-> seq[p[i]]] :
      p \in { q \in [1..Len(seq) -> 1..Len(seq)] : \A i, j \in 1..Len(seq) : q[i] = q[j] => i = j } }

\* C21: calculate_risk_score returns the tier of the summed score, the
\* thresholds taken in descending order: 80 and more is Critical, 50..79 High,
\* 25..49 Medium, 10..24 Low, less than 10 Clean; and the result is the same
\* for every rearrangement of the flags and of the patterns.
C21_Tiering ==
  Scoring =>
    /\ SummedScore >= 80 => pure_out.risk_score = "Critical"
    /\ SummedScore >= 50 /\ SummedScore < 80 => pure_out.risk_score = "High"
    /\ SummedScore >= 25 /\ SummedScore < 50 => pure_out.risk_score = "Medium"
    /\ SummedScore >= 10 /\ SummedScore < 25 => pure_out.risk_score = "Low"
    /\ SummedScore < 10 => pure_out.risk_score = "Clean"
    /\ \A metadata_flags \in Rearrangements(pure_in.metadata_flags),
          patterns \in Rearrangements(pure_in.patterns) :
         calculate_risk_score(metadata_flags, patterns) = pure_out.risk_score

\* a score of exactly 80 (typosquatting and process execution) is Critical
C21_Witness ==
  /\ Scoring
  /\ SummedScore = 80
  /\ Len(pure_in.metadata_flags) = 2
  /\ pure_in.metadata_flags[1] # pure_in.metadata_flags[2]
  /\ pure_out.risk_score = "Critical"

\* ---------------------------------------------------------------- C22
\* the flag types and the pattern severities of the call
FlagTypesIn == [i \in 1..Len(pure_in.metadata_flags) |-> pure_in.metadata_flags[i].flag_type]
SeveritiesIn == [i \in 1..Len(pure_in.patterns) |-> pure_in.patterns[i].severity]

\* C22: no flag and no pattern give Clean; one Typosquatting flag alone gives
\* High; one Typosquatting flag and one High pattern give Critical; every
\* input with a Typosquatting flag is scored High or Critical.
C22_ReferencePoints ==
  Scoring =>
    /\ FlagTypesIn = <<>> /\ SeveritiesIn = <<>> => pure_out.risk_score = "Clean"
    /\ FlagTypesIn = <<"Typosquatting">> /\ SeveritiesIn = <<>> => pure_out.risk_score = "High"
    /\ FlagTypesIn = <<"Typosquatting">> /\ SeveritiesIn = <<"High">> =>
         pure_out.risk_score = "Critical"
    /\ "Typosquatting" \in Range(FlagTypesIn) => pure_out.risk_score \in {"High", "Critical"}

\* one Typosquatting flag and one High pattern were scored Critical
C22_Witness ==
  /\ Scoring
  /\ FlagTypesIn = <<"Typosquatting">>
  /\ SeveritiesIn = <<"High">>
  /\ pure_out.risk_score = "Critical"

\* ---------------------------------------------------------------- C23
\* the place of a unit in the enumeration of the packages
PlaceOf(package_name) == Min({ k \in 1..Len(packages) : packages[k].name = package_name })

\* the place of a unit in the order of processing
ProcessedAt(package_name) ==
  Min({ k \in 1..Len(processed) : processed[k].name = package_name })

\* no result is followed by one of a strictly higher tier
SortedByTier ==
  \A k, l \in 1..Len(results) :
    k < l => RiskValue(results[k].risk_score) >= RiskValue(results[l].risk_score)

\* C23 as claimed: the list scan_dependencies returns is sorted by tier,
\* Critical first and Clean last, and results of equal tier appear in the
\* original input order of their units.
C23_AsClaimed ==
  scan_ret = "Ok" =>
    /\ SortedByTier
    /\ \A k, l \in 1..Len(results) :
         k < l /\ results[k].risk_score = results[l].risk_score =>
           PlaceOf(results[k].package_name) < PlaceOf(results[l].package_name)

\* C23: the list scan_dependencies returns is sorted by tier, Critical first
\* and Clean last, and results of equal tier appear in the order in which
\* their units were processed: the units of the deep analysis before those of
\* the quick scan, each group in enumeration order.
C23_FinalOrder ==
  scan_ret = "Ok" =>
    /\ SortedByTier
    /\ \A k, l \in 1..Len(results) :
         k < l /\ results[k].risk_score = results[l].risk_score =>
           /\ ProcessedAt(results[k].package_name) < ProcessedAt(results[l].package_name)
           /\ \/ ForceDeep(packages[PlaceOf(results[k].package_name)])
                   /\ ~ForceDeep(packages[PlaceOf(results[l].package_name)])
              \/ /\ ForceDeep(packages[PlaceOf(results[k].package_name)])
                      = ForceDeep(packages[PlaceOf(results[l].package_name)])
                 /\ PlaceOf(results[k].package_name) < PlaceOf(results[l].package_name)

\* two results of one tier, the unit enumerated first placed second
C23_Witness ==
  /\ scan_ret = "Ok"
  /\ Len(results) = 2
  /\ results[1].risk_score = results[2].risk_score
  /\ PlaceOf(results[1].package_name) = 2
  /\ PlaceOf(results[2].package_name) = 1

\* ---------------------------------------------------------------- C24
\* the names of a list of packages or of results
NamesOf(seq) == [k \in 1..Len(seq) |-> seq[k].name]

\* the place of a unit in the list of results
ResultAt(package_name) ==
  Min({ k \in 1..Len(results) : results[k].package_name = package_name })

\* C24: with the dependencies serde, sede and backdoor-utils the triage
\* selects exactly sede and backdoor-utils for the deep analysis and skips
\* serde, and the sorted results place sede and backdoor-utils ahead of
\* serde, whatever the analysis calls and the registry lookups give.
C24_EndToEnd ==
  /\ scan_pc # "idle" =>
       /\ Range(NamesOf(dependencies_to_analyze)) = {"sede", "backdoor-utils"}
       /\ NamesOf(low_priority_deps) = <<"serde">>
  /\ scan_ret = "Ok" =>
       /\ ResultAt("sede") < ResultAt("serde")
       /\ ResultAt("backdoor-utils") < ResultAt("serde")

\* ---------------------------------------------------------------- C25
\* the result of a unit in a list of results
ResultOf(package_name, some_results) ==
  some_results[Min({ k \in 1..Len(some_results) :
                       some_results[k].package_name = package_name })]

\* what the claim says of the unit whose analysis call gave llm, and of the
\* scan after it
FailureNoted(package, llm, results_after, scan_pc_after, scan_ret_after) ==
  /\ Len(results_after) = Len(results) + 1
  /\ \E k \in 1..Len(results_after) : results_after[k].package_name = package.name
  /\ ResultOf(package.name, results_after).suspicious_patterns = <<>>
  /\ starts_with(ResultOf(package.name, results_after).code_analysis, "Failed to analyze source")
  /\ llm.kind = "Err" =>
       contains(ResultOf(package.name, results_after).code_analysis, llm.analysis)
  /\ llm.kind = "Timeout" =>
       contains(ResultOf(package.name, results_after).code_analysis, "timed out")
  /\ ResultOf(package.name, results_after).risk_score
       = calculate_risk_score(ResultOf(package.name, results_after).metadata_flags, <<>>)
  /\ scan_ret_after # "Err"
  /\ scan_pc_after = Stage(Len(dependencies_to_analyze) - deep_done - 1,
                           Len(low_priority_deps) - light_done)

\* C25: when the analysis call of a FORCE-DEEP unit returns an error or times
\* out, the unit still gets a result with no pattern and a failure note that
\* carries the error text, scored from its metadata flags alone, and the scan
\* goes on with the next unit.
C25_FailedAnalysisKept ==
  [][\A registry \in RegistryAnswers, llm \in LlmAnswers :
       DeepUnit(registry, llm) /\ registry.kind # "bad_json" /\ llm.kind # "Ok" =>
         FailureNoted(dependencies_to_analyze[deep_done + 1], llm, results', scan_pc', scan_ret')]_vars

\* the scan ended well after the analysis of its first unit timed out and
\* that of its second unit failed
C25_Witness ==
  /\ scan_ret = "Ok"
  /\ Len(processed) = 2
  /\ processed[1].called /\ processed[2].called
  /\ ResultOf(processed[1].name, results).code_analysis
       = "Failed to analyze source: LLM analysis timed out"
  /\ starts_with(ResultOf(processed[2].name, results).code_analysis,
                 "Failed to analyze source: LLM analysis failed: ")

\* ---------------------------------------------------------------- C26
\* C26: no answer of the registry lookup, a success status with a body that
\* cannot be decoded included, makes a unit's analysis or scan_dependencies
\* return an error: the scan fails only when cargo metadata does, before any
\* unit is processed, and every unit processed has its result.
C26_LookupBestEffort ==
  /\ scan_ret = "Err" => processed = <<>>
  /\ Len(results) = Len(processed)

\* ---------------------------------------------------------------- C27
\* C27: no unit is dropped: once scan_dependencies has returned, the result
\* list holds exactly one DependencyAnalysisResult for every collected unit.
C27_NoUnitDropped ==
  scan_pc = "done" =>
    \A k \in 1..Len(Units) :
      Cardinality({ l \in 1..Len(results) : results[l].package_name = Units[k].name }) = 1

\* ---------------------------------------------------------------- C28
\* the units processed so far for which analyze_code was invoked
Analyzed == SelectSeq(processed, LAMBDA unit : unit.called)

\* C28: analyze_code is invoked only for FORCE-DEEP units, in the deep loop,
\* and at most once per unit, so the invocations never outnumber the
\* FORCE-DEEP units; no SKIP-DEEP unit reaches the analysis.
C28_SkipDeepNeverAnalyzed ==
  /\ \A k \in 1..Len(Analyzed) :
       /\ Analyzed[k].kind = "deep"
       /\ ForceDeep(packages[PlaceOf(Analyzed[k].name)])
       /\ \A l \in 1..Len(Analyzed) : Analyzed[l].name = Analyzed[k].name => l = k
  /\ Len(Analyzed) <= Len(SelectSeq(Units, ForceDeep))
  /\ \A k \in 1..Len(processed) :
       ~ForceDeep(packages[PlaceOf(processed[k].name)]) => ~processed[k].called

\* a scan of a SKIP-DEEP unit that is on no list and of a FORCE-DEEP unit
\* ended with one invocation
C28_Witness ==
  /\ scan_ret = "Ok"
  /\ Len(processed) = 2
  /\ Len(Analyzed) = 1
  /\ \E k \in 1..2 : processed[k].name = "thiser" /\ ~processed[k].called

\* ---------------------------------------------------------------- C29
\* the call of extract_text_from_response the last step made
ExtractCall == pure_fn = "extract_text_from_response"

\* every string of a JSON document, at any depth
RECURSIVE StringsIn(_)
StringsIn(v) ==
  IF v.t = "str" THEN {v.s}
  ELSE UNION { StringsIn(v.vals[i]) : i \in 1..Len(v.vals) }

Long(s) == Len(s) > 10
Marked(s) == \E m \in {"ANALYSIS:", "security", "analysis"} : contains(s, m)

\* the strings strategy 4 may return, as the claim words it and as the code
\* has it
LongOrMarked(v) == { s \in StringsIn(v) : Long(s) \/ Marked(s) }
LongAndMarked(v) == { s \in StringsIn(v) : Long(s) /\ Marked(s) }

\* the texts strategies 1, 2, 3, 5 and 6 can give for a payload (none when
\* the set is empty); the typed decode of strategy 3 gives an error instead
\* when the payload carries an error object
Texts1(v) == IF EnvelopeText(v) = None THEN {} ELSE {EnvelopeText(v)[1]}
Texts2(v) == IF v.t = "str" /\ Len(v.s) > 20 THEN {v.s} ELSE {}
Error3(v) == DecodesGeminiResponse(v) /\ gemini_error(v) # None
Texts3(v) ==
  IF DecodesGeminiResponse(v) /\ StructuredText(v) # None THEN {StructuredText(v)[1]} ELSE {}
Texts5(v) ==
  IF v.t # "obj" THEN {}
  ELSE { s \in { v.vals[i] .s : i \in { j \in 1..Len(v.vals) : v.vals[j].t = "str" } } :
           /\ Long(s)
           /\ \E f \in 1..6 :
                /\ get(v, DirectTextFields[f]) = Some(JStr(s))
                /\ \A e \in 1..(f - 1) :
                     ~(as_str(get(v, DirectTextFields[e])) # None
                       /\ Long(as_str(get(v, DirectTextFields[e]))[1])) }
Texts6(v) == IF IsMaxTokens(v) THEN {TruncatedAnalysis} ELSE {}

\* the texts of the strategies in order, strategy 4 given as a parameter,
\* strategy 7 always yielding
Strategies(v, texts4) ==
  <<Texts1(v), Texts2(v), Texts3(v), texts4, Texts5(v), Texts6(v), {BasicAnalysis}>>

\* the lowest-numbered strategy that yields something
Lowest(v, texts4) ==
  Min({ k \in 1..7 : Strategies(v, texts4)[k] # {} \/ (k = 3 /\ Error3(v)) })

\* the result is that of the lowest-numbered strategy that yields
ByLowest(v, texts4, extracted) ==
  /\ extracted.method = Lowest(v, texts4)
  /\ IF Lowest(v, texts4) = 3 /\ Error3(v)
     THEN ~extracted.ok
     ELSE extracted.ok /\ extracted.text \in Strategies(v, texts4)[Lowest(v, texts4)]

\* C29 as claimed: strategy 4 yields any string that is long or bears a marker.
C29_AsClaimed ==
  ExtractCall => ByLowest(pure_in.json_value, LongOrMarked(pure_in.json_value),
                          pure_out.extracted[1])

\* C29: the extracted text is the output of the lowest-numbered strategy that
\* yields, in the order (1) envelope text, (2) bare string of more than 20
\* bytes, (3) typed decode, an error when the payload carries an error
\* object, (4) recursive search for a string of more than 10 bytes that
\* also bears a marker, (5) the fixed field names, (6) the MAX_TOKENS
\* placeholder, (7) the last-resort text.
C29_OrderedFallback ==
  ExtractCall => ByLowest(pure_in.json_value, LongAndMarked(pure_in.json_value),
                          pure_out.extracted[1])

\* strategy 4 gave the marked string though a fixed field held another text
C29_Witness ==
  /\ ExtractCall
  /\ pure_out.extracted[1].method = 4
  /\ Texts5(pure_in.json_value) # {}
  /\ pure_out.extracted[1].text \notin Texts5(pure_in.json_value)

\* ---------------------------------------------------------------- C30
\* the call of parse_analysis_response the last step made
ParseCall == pure_fn = "parse_analysis_response"

\* what follows the first occurrence of a marker; None when it is not there
After(text, marker) ==
  IF find(text, marker) = 0 THEN None
  ELSE Some(SubSeq(text, find(text, marker) + Len(marker), Len(text)))

\* the lines of the findings section of a response, trimmed: what follows
\* PATTERNS: after ANALYSIS:
FindingsLines(response) ==
  IF After(response, "ANALYSIS:") = None THEN <<>>
  ELSE IF After(After(response, "ANALYSIS:")[1], "PATTERNS:") = None THEN <<>>
  ELSE [k \in 1..Len(lines(After(After(response, "ANALYSIS:")[1], "PATTERNS:")[1])) |->
          trim(lines(After(After(response, "ANALYSIS:")[1], "PATTERNS:")[1])[k])]

\* a line without the dash of a list item
Item(line) == IF starts_with(line, "- ") THEN SubSeq(line, 3, Len(line)) ELSE line

\* what follows the number of "Line: <int>"
AfterNumber(body) == SubSeq(body, 7 + DigitsFrom(body, 7), Len(body))

\* the description and the snippet of "<text>, Code: <text>"
DescriptionAndCode(rest) ==
  { [description |-> SubSeq(rest, 1, p - 1), code_snippet |-> SubSeq(rest, p + 8, Len(rest))] :
      p \in { q \in 2..(Len(rest) - 8) : SubSeq(rest, q, q + 7) = ", Code: " } }

\* the findings a line states when it is of the form
\* Line: <int>, Severity: High|Medium|Low, Description: <text>, Code: <text>
\* and the empty set when it is not
GrammarOf(body) ==
  IF ~starts_with(body, "Line: ") \/ DigitsFrom(body, 7) = 0 THEN {}
  ELSE UNION {
         { [line |-> SubSeq(body, 7, 6 + DigitsFrom(body, 7)), severity |-> severity,
            description |-> dc.description, code_snippet |-> dc.code_snippet] :
             dc \in DescriptionAndCode(After(AfterNumber(body), ", Description: ")[1]) } :
         severity \in { s \in {"High", "Medium", "Low"} :
                          starts_with(AfterNumber(body),
                                      ", Severity: " \o s \o ", Description: ") } }

\* the findings of the lines that are of the form, in the order of the lines
RECURSIVE Findings(_)
Findings(ls) ==
  IF ls = <<>> THEN <<>>
  ELSE (IF GrammarOf(Item(Head(ls))) = {} THEN <<>>
        ELSE <<CHOOSE finding \in GrammarOf(Item(Head(ls))) : TRUE>>)
       \o Findings(Tail(ls))

\* a pattern has the line number, severity, description and snippet of a finding
SameFinding(pattern, finding) ==
  /\ pattern.line = DigitsValue(finding.line)
  /\ pattern.severity = finding.severity
  /\ pattern.description = trim(finding.description)
  /\ pattern.code_snippet = trim(finding.code_snippet)

\* C30: every line of the findings section of the form
\* Line: <int>, Severity: High|Medium|Low, Description: <text>, Code: <text>
\* yields exactly one FlaggedPattern with its line number, severity,
\* description and snippet, in the order of the lines; every other line
\* yields nothing; every FlaggedPattern has severity High, Medium or Low.
C30_FindingsGrammar ==
  ParseCall =>
    /\ pure_out.parsed[1].ok
    /\ Len(pure_out.parsed[1].flagged_patterns) = Len(Findings(FindingsLines(pure_in.response)))
    /\ \A k \in 1..Len(pure_out.parsed[1].flagged_patterns) :
         /\ SameFinding(pure_out.parsed[1].flagged_patterns[k],
                        Findings(FindingsLines(pure_in.response))[k])
         /\ pure_out.parsed[1].flagged_patterns[k].severity \in {"High", "Medium", "Low"}

\* ---------------------------------------------------------------- C31
\* C31: structured extraction never fails: for every raw text
\* parse_analysis_response returns Ok, also when a findings line has an
\* out-of-range line number or malformed fields.
C31_ParseNeverFails ==
  ParseCall => pure_out.parsed[1].ok

\* ---------------------------------------------------------------- C32
\* what precedes the first occurrence of a marker
Before(text, marker) == SubSeq(text, 1, find(text, marker) - 1)

\* the analysis section of a raw text: what lies between ANALYSIS: and the
\* PATTERNS: after it, all that follows ANALYSIS: when no PATTERNS: follows,
\* the whole text when there is no ANALYSIS:
AnalysisSection(response) ==
  IF After(response, "ANALYSIS:") = None THEN response
  ELSE IF After(After(response, "ANALYSIS:")[1], "PATTERNS:") = None
       THEN After(response, "ANALYSIS:")[1]
  ELSE Before(After(response, "ANALYSIS:")[1], "PATTERNS:")

\* empty or whitespace only
Blank(text) == \A i \in 1..Len(text) : SubSeq(text, i, i) \in Whitespace

\* C32: in every Ok result the analysis text is non-empty; an empty or
\* whitespace-only analysis section is replaced by the canned placeholder;
\* a raw text with no findings section yields an empty list of flagged
\* patterns.
C32_AnalysisNeverEmpty ==
  (ParseCall /\ pure_out.parsed[1].ok) =>
    /\ pure_out.parsed[1].analysis # ""
    /\ Blank(AnalysisSection(pure_in.response)) =>
         pure_out.parsed[1].analysis = "Security analysis completed."
    /\ find(pure_in.response, "PATTERNS:") = 0 => pure_out.parsed[1].flagged_patterns = <<>>

\* a whitespace-only analysis section with no findings section was parsed
C32_Witness ==
  /\ ParseCall
  /\ pure_out.parsed[1].ok
  /\ pure_in.response # ""
  /\ Blank(AnalysisSection(pure_in.response))
  /\ find(pure_in.response, "PATTERNS:") = 0
  /\ pure_out.parsed[1].analysis = "Security analysis completed."
  /\ pure_out.parsed[1].flagged_patterns = <<>>

\* ---------------------------------------------------------------- C33
\* the prompts the attempts of the last call of try_single_api_request built
PromptCall == pure_fn = "try_single_api_request"

\* the length of a text in characters
RECURSIVE CharLen(_)
CharLen(text) == IF text = <<>> THEN 0 ELSE Head(text).count + CharLen(Tail(text))

\* the first n characters of a text, and what follows them
RECURSIVE TakeChars(_, _)
TakeChars(text, n) ==
  IF n = 0 \/ text = <<>> THEN <<>>
  ELSE IF n >= Head(text).count THEN <<Head(text)>> \o TakeChars(Tail(text), n - Head(text).count)
  ELSE <<Run(Head(text).ch, Head(text).width, n)>>

RECURSIVE DropChars(_, _)
DropChars(text, n) ==
  IF n = 0 \/ text = <<>> THEN text
  ELSE IF n >= Head(text).count THEN DropChars(Tail(text), n - Head(text).count)
  ELSE <<Run(Head(text).ch, Head(text).width, Head(text).count - n)>> \o Tail(text)

\* a text without empty runs, adjacent runs of one character joined
RECURSIVE Joined(_)
Joined(text) ==
  IF text = <<>> THEN <<>>
  ELSE IF Head(text).count = 0 THEN Joined(Tail(text))
  ELSE IF Joined(Tail(text)) # <<>> /\ Head(Joined(Tail(text))).ch = Head(text).ch
       THEN <<Run(Head(text).ch, Head(text).width,
                  Head(text).count + Head(Joined(Tail(text))).count)>>
            \o Tail(Joined(Tail(text)))
  ELSE <<Head(text)>> \o Joined(Tail(text))

\* the head slice and the tail slice of n characters each, joined by the
\* elision marker
HeadAndTail(text, n) ==
  TakeChars(text, n) \o <<Run(ElisionMarker, Len(ElisionMarker), 1)>>
    \o DropChars(text, CharLen(text) - n)

\* C33: oversized input is one size-triggered branch: every attempt sends
\* either the concise template with the head slice and the tail slice of
\* 7500 characters each joined by the elision marker, or the regular
\* template with the whole content; the concise template is never used
\* with unreduced content, and every attempt of a call sends the same.
C33_OneBranch ==
  PromptCall =>
    \A k \in 1..Len(pure_out.prompts) :
      /\ ~pure_out.prompts[k].panic
      /\ pure_out.prompts[k].template \in {"concise", "regular"}
      /\ pure_out.prompts[k].template = "concise" =>
           /\ CharLen(pure_in.content) > 2 * 7500
           /\ Joined(pure_out.prompts[k].code) = Joined(HeadAndTail(pure_in.content, 7500))
      /\ pure_out.prompts[k].template = "regular" =>
           Joined(pure_out.prompts[k].code) = Joined(pure_in.content)
      /\ pure_out.prompts[k] = pure_out.prompts[1]

\* ---------------------------------------------------------------- C34
DistanceCall == pure_fn = "levenshtein_distance"

\* the words one insertion, deletion or substitution of a single character
\* away from a word
Edits(w) ==
  { SubSeq(w, 1, i) \o c \o SubSeq(w, i + 1, Len(w)) : i \in 0..Len(w), c \in Alphabet }
  \cup { SubSeq(w, 1, i - 1) \o SubSeq(w, i + 1, Len(w)) : i \in 1..Len(w) }
  \cup { SubSeq(w, 1, i - 1) \o c \o SubSeq(w, i + 1, Len(w)) : i \in 1..Len(w), c \in Alphabet }

EditsOfAll(ws) == ws \cup UNION { Edits(w) : w \in ws }

\* the words at most k edits away from a word
RECURSIVE Within(_, _)
Within(w, k) == IF k = 0 THEN {w} ELSE EditsOfAll(Within(w, k - 1))

\* the standard edit distance: the least number of edits that turn a into b
StandardDistance(a, b) ==
  CHOOSE k \in 0..(Len(a) + Len(b)) :
    /\ b \in Within(a, k)
    /\ k > 0 => b \notin Within(a, k - 1)

PlaceIn(order, flag_type) ==
  IF \E k \in 1..Len(order) : order[k] = flag_type
  THEN CHOOSE k \in 1..Len(order) : order[k] = flag_type
  ELSE Len(order) + 1

\* the flags of the call weigh strictly less the later their type comes in
\* the order, and the same when their types have the same place
DescendingFlags(order) ==
  \A i, j \in 1..Len(pure_in.metadata_flags) :
    /\ PlaceIn(order, pure_in.metadata_flags[i].flag_type)
         < PlaceIn(order, pure_in.metadata_flags[j].flag_type)
       => FlagWeight(pure_in.metadata_flags[i]) > FlagWeight(pure_in.metadata_flags[j])
    /\ PlaceIn(order, pure_in.metadata_flags[i].flag_type)
         = PlaceIn(order, pure_in.metadata_flags[j].flag_type)
       => FlagWeight(pure_in.metadata_flags[i]) = FlagWeight(pure_in.metadata_flags[j])

\* the patterns of the call weigh High > Medium > Low
DescendingPatterns ==
  \A i, j \in 1..Len(pure_in.patterns) :
    /\ PlaceIn(<<"High", "Medium", "Low">>, pure_in.patterns[i].severity)
         < PlaceIn(<<"High", "Medium", "Low">>, pure_in.patterns[j].severity)
       /\ pure_in.patterns[j].severity \in {"High", "Medium", "Low"}
       => PatternWeight(pure_in.patterns[i]) > PatternWeight(pure_in.patterns[j])
    /\ pure_in.patterns[i].severity = pure_in.patterns[j].severity
       => PatternWeight(pure_in.patterns[i]) = PatternWeight(pure_in.patterns[j])

\* C35 as stated: flag weights are fixed and strictly descending in the
\* order typosquatting, process-execution, suspicious-author, networking,
\* recent-publication, low-downloads, default; pattern weights are fixed and
\* strictly descending in the order High, Medium, Low.
C35_AsClaimed ==
  Scoring =>
    /\ DescendingFlags(<<"Typosquatting", "ProcessExecution", "SuspiciousAuthor",
                         "NetworkingCapabilities", "RecentPublication", "LowDownloads">>)
    /\ DescendingPatterns

\* C35, amended: flag weights are fixed and strictly descending in the
\* order typosquatting, suspicious-author, process-execution, networking,
\* recent-publication, low-downloads, default; pattern weights are fixed and
\* strictly descending in the order High, Medium, Low.
C35_DescendingWeights ==
  Scoring =>
    /\ DescendingFlags(<<"Typosquatting", "SuspiciousAuthor", "ProcessExecution",
                         "NetworkingCapabilities", "RecentPublication", "LowDownloads">>)
    /\ DescendingPatterns

\* a process-execution flag and a suspicious-author flag were weighed in
\* one call, with a High and a Low pattern
C35_Witness ==
  /\ Scoring
  /\ FlagTypesIn = <<"ProcessExecution", "SuspiciousAuthor">>
  /\ SeveritiesIn = <<"High", "Low">>

\* ---------------------------------------------------------------- C36
TreeCall == pure_fn = "analyze_dependency_tree"

\* the flags of a type among the flags returned
FlagsOfType(flag_type) == SelectSeq(pure_out.flags, LAMBDA flag : flag.flag_type = flag_type)

\* exactly one flag of the category, with its severity, when a declared
\* dependency is in the reference set, and none otherwise
OneFlagIfAny(flag_type, reference, severity) ==
  IF \E k \in 1..Len(pure_in.package.dependencies) : pure_in.package.dependencies[k] \in reference
  THEN Len(FlagsOfType(flag_type)) = 1 /\ FlagsOfType(flag_type)[1].severity = severity
  ELSE FlagsOfType(flag_type) = <<>>

\* C36: for each of the categories networking, filesystem-access and
\* process-execution a unit gets exactly one flag of the category when at
\* least one declared dependency name is in the category's reference set, and
\* none otherwise, however many dependencies match; the severity is Medium
\* for networking, Low for filesystem-access, High for process-execution.
C36_CapabilityFlags ==
  TreeCall =>
    /\ OneFlagIfAny("NetworkingCapabilities",
                    {"reqwest", "hyper", "curl", "ureq", "attohttpc"}, "Medium")
    /\ OneFlagIfAny("FileSystemAccess", {"walkdir", "glob", "tempfile"}, "Low")
    /\ OneFlagIfAny("ProcessExecution", {"tokio-process", "async-process"}, "High")

\* two networking dependencies and one for process execution: one flag each
C36_Witness ==
  /\ TreeCall
  /\ pure_in.package.dependencies = <<"reqwest", "tokio-process", "hyper">>
  /\ Len(pure_out.flags) = 2

\* ---------------------------------------------------------------- C37
RegistryCall == pure_fn = "analyze_package_metadata"

Raised(flag_type) == \E k \in 1..Len(pure_out.flags) : pure_out.flags[k].flag_type = flag_type

\* the creation timestamp lies within the last n days: not after now and
\* not more than n days before it
WithinLastDays(created_at, n) ==
  /\ created_at.kind = "rfc3339"
  /\ \/ ~created_at.future
     \/ (created_at.days = 0 /\ ~created_at.part)
  /\ \/ created_at.days < n
     \/ (created_at.days = n /\ ~created_at.part)

\* C37: for a document of the registry the publish-recency flag is raised
\* exactly when the creation timestamp is within the last 7 days, and the
\* low-downloads flag exactly when the reported download count is below 1000
\* or absent from the document.
C37_RegistryFlags ==
  RegistryCall =>
    /\ Raised("RecentPublication") <=> WithinLastDays(pure_in.created_at, 7)
    /\ Raised("LowDownloads") <=>
         \/ pure_in.downloads.t # "num"
         \/ pure_in.downloads.n < 1000

\* ---------------------------------------------------------------- C38
\* the units after whose processing the fixed delay was slept
Delayed == { k \in 1..Len(processed) : processed[k].slept = UnitDelay }

\* scan_dependencies returned, and cargo metadata had been read
ScanEnded == scan_pc = "done" /\ ~(scan_ret = "Err" /\ processed = <<>>)

\* C38: with n FORCE-DEEP units the fixed delay is slept after each of the
\* first n-1 of them, n-1 times in total; not after the last FORCE-DEEP unit,
\* not between SKIP-DEEP units; with n = 0 no delay happens and the scan
\* still completes.
C38_InterUnitDelay ==
  ScanEnded =>
    /\ Delayed = 1..(Len(dependencies_to_analyze) - 1)
    /\ \A k \in 1..Len(processed) : processed[k].slept \in {0, UnitDelay}
    /\ \A k \in Delayed : processed[k].kind = "deep"
    /\ dependencies_to_analyze = <<>> => scan_ret = "Ok"

\* ---------------------------------------------------------------- C39
\* a call that returned the error of the inner client, or was cancelled
\* while it awaited the inner client
Failed(call) == call.status \in {"Err", "Cancelled"}

\* the step ends a call by the inner client's error or by cancellation
EndsFailed == pc = "calling" /\ pc' = "idle" /\ ~ret'.inner_ok

\* a step in which an analysis failed stores nothing and leaves the rows as
\* they are
FailureStoresNothing ==
  EndsFailed => (ret'.stores = 0 /\ dbret' = NoDbCall /\ scan_results' = scan_results)

\* the rows change only in a step in which the inner client returned Ok, and
\* then every new row holds what it returned
RowsHoldOkResults ==
  scan_results' # scan_results =>
    /\ pc = "calling"
    /\ ret'.inner_ok
    /\ \A row \in scan_results' \ scan_results :
         /\ row.analysis = ret'.analysis
         /\ row.flagged_patterns_json = to_string(ret'.flagged_patterns)

\* C39 as stated: a failed analysis never populates the cache: the cached
\* client performs no store, the rows are unchanged, and the next
\* analyze_code with the same prompt is again a miss that calls the inner
\* client; every cache row holds a result the inner client returned as Ok.
C39_AsClaimed ==
  [][/\ FailureStoresNothing
     /\ RowsHoldOkResults
     /\ (Failed(prevret') /\ ret'.status # "none" /\ ret'.prompt = prevret'.prompt)
          => (~ret'.hit /\ ret'.inner_calls = 1)]_vars

\* C39, amended: a failed analysis never populates the cache: the cached
\* client performs no store, the rows are unchanged, and the next
\* analyze_code with the same prompt is again a miss that calls the inner
\* client unless the lookup of the failed call had itself failed; every
\* cache row holds a result the inner client returned as Ok.
C39_FailureNotCached ==
  [][/\ FailureStoresNothing
     /\ RowsHoldOkResults
     /\ (Failed(prevret') /\ ~prevret'.lookup_fault
         /\ ret'.status # "none" /\ ret'.prompt = prevret'.prompt)
          => (~ret'.hit /\ ret'.inner_calls = 1)]_vars

\* a call failed while the cache held a row, and the next call with the
\* same prompt called the inner client again
C39_Witness ==
  /\ Failed(prevret)
  /\ ~prevret.lookup_fault
  /\ ret.status = "Ok"
  /\ ret.prompt = prevret.prompt
  /\ ~ret.hit
  /\ ret.inner_calls = 1
  /\ ret.stores = 1
  /\ Cardinality(scan_results) = 2

\* a step in which an analyze_code call is started
Started == \E prompt \in Prompts, fault \in BOOLEAN : AnalyzeStart(prompt, fault)

\* the call started in this step returned in it, without the inner client
AnsweredByCache == pc' = "idle" /\ ret'.hit /\ ret'.inner_calls = 0

\* the call started in this step awaits the inner client
InvokesInner == pc' = "calling" /\ request'.prompt \in Prompts

CountedAsHit ==
  cache_hits' = cache_hits + 1 /\ cache_misses' = cache_misses /\ AnsweredByCache

CountedAsMiss ==
  cache_misses' = cache_misses + 1 /\ cache_hits' = cache_hits /\ InvokesInner

\* C40: both counters start at 0 and only a started analyze_code call changes
\* them; with the database open each started call adds 1 to exactly one of
\* them, to cache_hits exactly when the call is answered without the inner
\* client and to cache_misses exactly when it goes on to the inner client, so
\* that cache_hits + cache_misses counts the calls started and cache_hits the
\* calls answered by the cache; with no database both counters stay 0.
C40_HitMissAccounting ==
  [][/\ (Started /\ database = "Some") => (CountedAsHit \/ CountedAsMiss)
     /\ (Started /\ database = "None") => (InvokesInner /\ UNCHANGED <<cache_hits, cache_misses>>)
     /\ ~Started => UNCHANGED <<cache_hits, cache_misses>>
     /\ (client = "absent") => (cache_hits = 0 /\ cache_misses = 0)
     /\ (database' = "None") => (cache_hits' = 0 /\ cache_misses' = 0)]_vars

\* two calls with the database open, the first a miss that went to the inner
\* client and the second a hit: each counter has been incremented once
C40_Witness ==
  /\ database = "Some"
  /\ ret.status = "Ok" /\ ret.hit /\ ret.inner_calls = 0
  /\ prevret.status = "Ok" /\ ~prevret.hit
  /\ cache_hits = 1 /\ cache_misses = 1

====
